---- MODULE Spec2Model ----
(***************************************************************************)
(* A model of the log-analysis engine of App-Insights-Log-Analysis:        *)
(*   - the ingestion pipeline: LogDashboard.handleFileUpload and the CSV   *)
(*     worker it starts (src/src/components/LogDashboard.tsx,              *)
(*     src/src/workers/csvWorker.ts);                                      *)
(*   - the pattern aggregator extractErrorPatterns and the file            *)
(*     differencer compareFiles (csvParser.ts, kept in src/unnamed/part_003*)
(*     from line 1720 on).                                                 *)
(* Strings the code inspects character by character are sequences of       *)
(* one-character strings; instants are integers; null is the value Null.   *)
(***************************************************************************)
EXTENDS Integers, Sequences, FiniteSets, TLC

VARIABLES
    \* ---- LogDashboard state (useState hooks, LogDashboard.tsx:25-44)
    files,          \* LogFile[]: the loaded files, files[1] is slot 0
    fileSizes,      \* number[]: the size recorded for each slot written so far
    loading,        \* boolean
    parseProgress,  \* number
    error,          \* string | null
    warning,        \* string | null
    viewMode,       \* 'single' | 'compare'
    filters,        \* "default" (the reset value) or "custom" (changed by the user)
    runs,           \* one entry per call of handleFileUpload, in call order:
                    \* its slot and the state of its promise
    workers,        \* the Worker objects not yet terminated, by run: the file
                    \* posted, the worker's position, the events not yet
                    \* delivered to the caller (chan) and all it posted (sent)
    \* ---- extractErrorPatterns (one pass over one input)
    epLogs,         \* the argument logs
    epIdx,          \* number of records the forEach has handled
    epPatterns,     \* the Map patterns, as the sequence of its values in insertion order
    epPc,           \* "forEach" | "done"
    epResult,       \* the returned array (empty until the function returns)
    \* ---- compareFiles (one call on one pair of inputs)
    cfLogs1, cfLogs2,
    cfPc,           \* "build1" | "build2" | "done"
    cfIdx,          \* number of records the running forEach has handled
    cfPatterns1, cfPatterns2,   \* the two Maps, in insertion order
    cfAllMessages,  \* the Map allPatternMessages, in insertion order
    cfResult,       \* the ComparisonResult (empty until the function returns)
    \* ---- parseSeverity (one call on one value)
    psValue,        \* the argument value
    psPc,           \* "call" | "done"
    psResult,       \* the returned number (NoResult until the function returns)
    \* ---- detectColumnMapping (one call on one header)
    dcColumns,      \* the argument columns
    dcPc,           \* "call" | "done"
    dcMapping,      \* the returned ColumnMapping (NoMapping until the function returns)
    \* ---- csvWorker's self.onmessage (one message, one parse)
    wkColumns,      \* parseResult.meta.fields
    wkData,         \* parseResult.data, as runs: a row (the cells of the columns, in
                    \* their order) and the number of times it comes in succession
    wkFileIndex,    \* e.data.fileIndex
    wkPc,           \* "parse" | "map" | "done"
    wkRowsProcessed,        \* rowsProcessed
    wkLastProgressUpdate,   \* lastProgressUpdate
    wkPosted,       \* the messages posted so far, in order
    \* ---- one call of a pure helper (normalizeMessage, extractServerRole)
    fnName,         \* the function called
    fnArgs,         \* its arguments
    fnPc,           \* "call" | "done"
    fnResult        \* what it returned (<<>> until it returns)

dashVars == <<files, fileSizes, loading, parseProgress, error, warning, viewMode, filters, runs,
             workers>>
epVars == <<epLogs, epIdx, epPatterns, epPc, epResult>>
cfVars == <<cfLogs1, cfLogs2, cfPc, cfIdx, cfPatterns1, cfPatterns2, cfAllMessages, cfResult>>
psVars == <<psValue, psPc, psResult>>
dcVars == <<dcColumns, dcPc, dcMapping>>
wkVars == <<wkColumns, wkData, wkFileIndex, wkPc, wkRowsProcessed, wkLastProgressUpdate,
           wkPosted>>
fnVars == <<fnName, fnArgs, fnPc, fnResult>>
utilVars == <<psVars, dcVars, wkVars, fnVars>>
vars == <<dashVars, epVars, cfVars, utilVars>>

Null == "<null>"

(***************************************************************************)
(* Bounds of the model.                                                    *)
(***************************************************************************)
\* calls of handleFileUpload in one behaviour
MaxRuns == 3

(***************************************************************************)
(* The ingestion pipeline: LogDashboard and one csvWorker per upload.      *)
(***************************************************************************)
Slots == {0, 1}

\* MAX_RECOMMENDED_SIZE, in MB
MaxRecommendedSize == 100

\* The files the user can pick.  size is in MB; readable says whether the
\* reader delivers the file's rows (Papa's complete callback) or fails (its
\* error callback); tsCol and msgCol say whether detectColumnMapping finds a
\* timestamp column and a message column in the header; rows is the number
\* of parsed rows.
Files ==
    { [name |-> "a.csv", size |-> 1,   readable |-> TRUE,  tsCol |-> TRUE,  msgCol |-> FALSE,
       rows |-> 2],
      [name |-> "b.csv", size |-> 200, readable |-> TRUE,  tsCol |-> FALSE, msgCol |-> TRUE,
       rows |-> 0],
      [name |-> "c.csv", size |-> 1,   readable |-> FALSE, tsCol |-> TRUE,  msgCol |-> TRUE,
       rows |-> 1] }

\* csvWorker.ts:131-141: the percents posted while the rows are mapped
RECURSIVE ProgressFrom(_, _, _)
ProgressFrom(rowsProcessed, totalRows, lastProgressUpdate) ==
    IF rowsProcessed > totalRows THEN <<>>
    ELSE LET progress == (rowsProcessed * 100) \div totalRows
         IN  IF progress - lastProgressUpdate >= 10 \/ rowsProcessed % 1000 = 0
             THEN <<progress>> \o ProgressFrom(rowsProcessed + 1, totalRows, progress)
             ELSE ProgressFrom(rowsProcessed + 1, totalRows, lastProgressUpdate)

ProgressUpdates(totalRows) == ProgressFrom(1, totalRows, 0)

\* Mutant of CompleteMessages: the reader's warnings are also reported as a
\* failure after the result was posted
CompleteMessagesThenError(f) ==
    [i \in 1..Len(ProgressUpdates(f.rows)) |->
        [type |-> "progress", percent |-> ProgressUpdates(f.rows)[i]]]
    \o << [type |-> "complete",
           data |-> [logs |-> [of |-> f.name, n |-> f.rows],
                     detectedMapping |->
                        [timestamp |-> IF f.tsCol THEN "timestamp" ELSE "",
                         message |-> IF f.msgCol THEN "message" ELSE ""]]],
          [type |-> "error", message |-> "parse warnings in " \o f.name] >>

\* csvWorker.ts:120-178: what the complete callback posts for file f
CompleteMessages(f) ==
    [i \in 1..Len(ProgressUpdates(f.rows)) |->
        [type |-> "progress", percent |-> ProgressUpdates(f.rows)[i]]]
    \o << [type |-> "complete",
           data |-> [logs |-> [of |-> f.name, n |-> f.rows],
                     detectedMapping |->
                        [timestamp |-> IF f.tsCol THEN "timestamp" ELSE "",
                         message |-> IF f.msgCol THEN "message" ELSE ""]]] >>

\* Mutant of ErrorMessages: the error callback only logs and posts nothing
ErrorMessagesSilent(f) == SubSeq(<< [type |-> "error", message |-> f.name] >>, 1, 0)

\* csvWorker.ts:179-184: what the error callback posts
ErrorMessages(f) ==
    << [type |-> "error", message |-> "cannot read " \o f.name] >>

\* The ErrorEvent the browser hands to worker.onerror
ErrorEvent == [type |-> "errorevent"]

Terminal(m) == m.type \in {"complete", "error"}

RunIds == 1..MaxRuns

RunState(r) == IF r \in DOMAIN runs THEN runs[r].state ELSE "idle"

InFlight(r) == RunState(r) = "running"

\* worker.terminate() was called on the worker of run r
Terminated(r) == r \in DOMAIN runs /\ r \notin DOMAIN workers

\* Where the render offers the upload for a slot (LogDashboard.tsx:381-395,
\* 420-457, 531)
CanUpload(slot) ==
    \/ slot = 0 /\ Len(files) = 0 /\ ~loading
    \/ slot = 0 /\ Len(files) > 0 /\ ~loading
    \/ viewMode = "compare" /\ Len(files) > 0

\* handleFileUpload up to the await (LogDashboard.tsx:60-104): the state
\* setters, new Worker(...) and worker.postMessage({type: 'parse', ...})
StartUpload(f, slot) ==
    /\ Len(runs) < MaxRuns
    /\ CanUpload(slot)
    /\ loading' = TRUE
    /\ parseProgress' = 0
    /\ error' = Null
    /\ warning' = IF f.size > MaxRecommendedSize THEN "Large file" ELSE Null
    /\ fileSizes' = [s \in DOMAIN fileSizes \cup {slot} |->
                        IF s = slot THEN f.size ELSE fileSizes[s]]
    /\ runs' = Append(runs, [slot |-> slot, state |-> "running"])
    /\ workers' = [r \in DOMAIN workers \cup {Len(runs) + 1} |->
                      IF r = Len(runs) + 1
                      THEN [file |-> f, pc |-> "ready", chan |-> <<>>, sent |-> <<>>]
                      ELSE workers[r]]
    /\ UNCHANGED <<files, viewMode, filters>>

\* csvWorker.ts:108-186: the worker handles the parse message; the reader
\* ends in the complete or in the error callback
WorkerParse(r) ==
    /\ r \in DOMAIN workers
    /\ workers[r].pc = "ready"
    /\ LET out == IF workers[r].file.readable THEN CompleteMessages(workers[r].file)
                  ELSE ErrorMessages(workers[r].file)
       IN  workers' = [workers EXCEPT ![r].pc = "done",
                                      ![r].chan = @ \o out,
                                      ![r].sent = @ \o out]
    /\ UNCHANGED <<files, fileSizes, loading, parseProgress, error, warning, viewMode,
                   filters, runs>>

\* The worker dies of an uncaught error before its callback ran: the browser
\* raises the error event on the caller's Worker object
WorkerCrash(r) ==
    /\ r \in DOMAIN workers
    /\ workers[r].pc = "ready"
    /\ workers' = [workers EXCEPT ![r].pc = "crashed", ![r].chan = @ \o <<ErrorEvent>>]
    /\ UNCHANGED <<files, fileSizes, loading, parseProgress, error, warning, viewMode,
                   filters, runs>>

\* LogDashboard.tsx:117-121: updated[slot] = newFile; updated.filter(Boolean)
PutFile(prev, slot, newFile) ==
    IF slot + 1 <= Len(prev) THEN [prev EXCEPT ![slot + 1] = newFile]
    ELSE Append(prev, newFile)

\* worker.terminate(): the worker and its undelivered messages are gone
Terminate(r) == [w \in DOMAIN workers \ {r} |-> workers[w]]

\* LogDashboard.tsx:89-90, 106-133 and the finally block: the run resolved
\* with data
OnComplete(r, data) ==
    /\ workers' = Terminate(r)
    /\ files' = PutFile(files, runs[r].slot,
                        [id |-> r, name |-> workers[r].file.name, logs |-> data.logs,
                         mapping |-> data.detectedMapping,
                         stats |-> [total |-> data.logs.n]])
    /\ error' = IF data.detectedMapping.timestamp = ""
                THEN "Could not auto-detect timestamp column." ELSE error
    /\ filters' = IF runs[r].slot = 0 THEN "default" ELSE filters
    /\ loading' = FALSE
    /\ parseProgress' = 0
    /\ runs' = [runs EXCEPT ![r].state = "completed"]
    /\ UNCHANGED <<fileSizes, warning, viewMode>>

\* Mutant of OnFailure: the catch block surfaces an empty file for the slot
OnFailureStoresPartial(r, reason) ==
    /\ workers' = Terminate(r)
    /\ files' = PutFile(files, runs[r].slot,
                        [id |-> r, name |-> workers[r].file.name,
                         logs |-> [of |-> workers[r].file.name, n |-> 0],
                         mapping |-> [timestamp |-> "", message |-> ""],
                         stats |-> [total |-> 0]])
    /\ error' = reason
    /\ loading' = FALSE
    /\ parseProgress' = 0
    /\ runs' = [runs EXCEPT ![r].state = "failed"]
    /\ UNCHANGED <<fileSizes, warning, viewMode, filters>>

\* LogDashboard.tsx:92-93, 98-99, 134-139: the run rejected; err is the Error
\* made from the worker's message, or the ErrorEvent, which is no Error
OnFailure(r, reason) ==
    /\ workers' = Terminate(r)
    /\ error' = reason
    /\ loading' = FALSE
    /\ parseProgress' = 0
    /\ runs' = [runs EXCEPT ![r].state = "failed"]
    /\ UNCHANGED <<files, fileSizes, warning, viewMode, filters>>

\* LogDashboard.tsx:83-100: worker.onmessage / worker.onerror take the next
\* event of run r's worker; a terminated worker delivers nothing more
Deliver(r) ==
    /\ r \in DOMAIN workers
    /\ workers[r].chan # <<>>
    /\ LET m == Head(workers[r].chan)
       IN  CASE m.type = "progress" ->
                  /\ parseProgress' = m.percent
                  /\ workers' = [workers EXCEPT ![r].chan = Tail(@)]
                  /\ UNCHANGED <<files, fileSizes, loading, error, warning, viewMode,
                                 filters, runs>>
             [] m.type = "complete" -> OnComplete(r, m.data)
             [] m.type = "error" -> OnFailure(r, m.message)
             [] m.type = "errorevent" -> OnFailure(r, "Failed to parse CSV")

\* LogDashboard.tsx:334-339
RemoveFile(index) ==
    /\ viewMode = "compare"
    /\ index + 1 <= Len(files)
    /\ files' = SubSeq(files, 1, index) \o SubSeq(files, index + 2, Len(files))
    /\ filters' = IF index = 0 THEN "default" ELSE filters
    /\ UNCHANGED <<fileSizes, loading, parseProgress, error, warning, viewMode, runs, workers>>

\* LogDashboard.tsx:352-367: the mode toggle, shown while a file is loaded
SetViewMode(mode) ==
    /\ Len(files) > 0
    /\ mode # viewMode
    /\ viewMode' = mode
    /\ UNCHANGED <<files, fileSizes, loading, parseProgress, error, warning, filters, runs, workers>>

\* The user changes a filter in the FilterBar (LogDashboard.tsx:463, 512-535)
ChangeFilters ==
    /\ Len(files) > 0
    /\ ~loading
    /\ filters = "default"
    /\ filters' = "custom"
    /\ UNCHANGED <<files, fileSizes, loading, parseProgress, error, warning, viewMode, runs, workers>>

DashInit ==
    /\ files = <<>>
    /\ fileSizes = [s \in {} |-> 0]
    /\ loading = FALSE
    /\ parseProgress = 0
    /\ error = Null
    /\ warning = Null
    /\ viewMode = "single"
    /\ filters = "default"
    /\ runs = <<>>
    /\ workers = [r \in {} |-> 0]

EpIdle ==
    /\ epLogs = <<>>
    /\ epIdx = 0
    /\ epPatterns = <<>>
    /\ epPc = "done"
    /\ epResult = <<>>

CfIdle ==
    /\ cfLogs1 = <<>>
    /\ cfLogs2 = <<>>
    /\ cfPc = "done"
    /\ cfIdx = 0
    /\ cfPatterns1 = <<>>
    /\ cfPatterns2 = <<>>
    /\ cfAllMessages = <<>>
    /\ cfResult = <<>>

\* no result yet
NoResult == 0 - 1

JsUndefined == [type |-> "undefined", tenths |-> 0, chars |-> <<>>]

PsIdle ==
    /\ psValue = JsUndefined
    /\ psPc = "done"
    /\ psResult = NoResult

NoMapping == [timestamp |-> <<>>, severity |-> <<>>, message |-> <<>>]

DcIdle ==
    /\ dcColumns = <<>>
    /\ dcPc = "done"
    /\ dcMapping = NoMapping

WkIdle ==
    /\ wkColumns = <<>>
    /\ wkData = <<>>
    /\ wkFileIndex = 0
    /\ wkPc = "done"
    /\ wkRowsProcessed = 0
    /\ wkLastProgressUpdate = 0
    /\ wkPosted = <<>>

FnIdle ==
    /\ fnName = "none"
    /\ fnArgs = <<>>
    /\ fnPc = "done"
    /\ fnResult = <<>>

UtilIdle == PsIdle /\ DcIdle /\ WkIdle /\ FnIdle

Init == DashInit /\ EpIdle /\ CfIdle /\ UtilIdle

Next ==
    \/ \E f \in Files, slot \in Slots : StartUpload(f, slot) /\ UNCHANGED <<epVars, cfVars, utilVars>>
    \/ \E r \in RunIds : WorkerParse(r) /\ UNCHANGED <<epVars, cfVars, utilVars>>
    \/ \E r \in RunIds : WorkerCrash(r) /\ UNCHANGED <<epVars, cfVars, utilVars>>
    \/ \E r \in RunIds : Deliver(r) /\ UNCHANGED <<epVars, cfVars, utilVars>>
    \/ \E index \in Slots : RemoveFile(index) /\ UNCHANGED <<epVars, cfVars, utilVars>>
    \/ \E mode \in {"single", "compare"} : SetViewMode(mode) /\ UNCHANGED <<epVars, cfVars, utilVars>>
    \/ ChangeFilters /\ UNCHANGED <<epVars, cfVars, utilVars>>

Spec == Init /\ [][Next]_vars

\* The worker is scheduled and its events are delivered: a started worker
\* ends (in a callback or by dying), a pending event is handled
FairSpec ==
    /\ Spec
    /\ \A r \in RunIds :
          WF_vars((WorkerParse(r) \/ WorkerCrash(r)) /\ UNCHANGED <<epVars, cfVars, utilVars>>)
    /\ \A r \in RunIds : WF_vars(Deliver(r) /\ UNCHANGED <<epVars, cfVars, utilVars>>)

(***************************************************************************)
(* Text.  A string is a sequence of one-character strings.                 *)
(***************************************************************************)
Digits == {"0", "1", "2", "3", "4", "5", "6", "7", "8", "9"}

HexLetters == {"a", "b", "c", "d", "e", "f", "A", "B", "C", "D", "E", "F"}

LowerCase == <<"a", "b", "c", "d", "e", "f", "g", "h", "i", "j", "k", "l", "m",
              "n", "o", "p", "q", "r", "s", "t", "u", "v", "w", "x", "y", "z">>

UpperCase == <<"A", "B", "C", "D", "E", "F", "G", "H", "I", "J", "K", "L", "M",
              "N", "O", "P", "Q", "R", "S", "T", "U", "V", "W", "X", "Y", "Z">>

\* [0-9a-f] under the i flag
HexChars == Digits \cup HexLetters

\* \w
WordChars == Digits \cup {"_"} \cup {LowerCase[i] : i \in DOMAIN LowerCase}
                \cup {UpperCase[i] : i \in DOMAIN UpperCase}

\* \s (the white space the model's messages use)
SpaceChars == {" "}

IsWordAt(s, i) == i \in DOMAIN s /\ s[i] \in WordChars

\* \b between s[i-1] and s[i]
BoundaryAt(s, i) == IsWordAt(s, i - 1) # IsWordAt(s, i)

AllIn(s, from, n, set) ==
    /\ from + n - 1 <= Len(s)
    /\ \A k \in from..(from + n - 1) : s[k] \in set

IsChar(s, i, c) == i \in DOMAIN s /\ s[i] = c

\* the length of the longest run of characters of set that starts at s[i]
RunLen(s, i, set) ==
    LET end == CHOOSE j \in i..(Len(s) + 1) :
                   /\ j = Len(s) + 1 \/ s[j] \notin set
                   /\ \A k \in i..(j - 1) : s[k] \in set
    IN  IF i > Len(s) THEN 0 ELSE end - i

\* String.prototype.substring(0, n)
Substring0(s, n) == SubSeq(s, 1, IF Len(s) < n THEN Len(s) ELSE n)

\* String.prototype.trim()
TrimStart(s) == SubSeq(s, RunLen(s, 1, SpaceChars) + 1, Len(s))

TrimEnd(s) ==
    LET last == CHOOSE j \in 0..Len(s) :
                    /\ j = 0 \/ s[j] \notin SpaceChars
                    /\ \A k \in (j + 1)..Len(s) : s[k] \in SpaceChars
    IN  SubSeq(s, 1, last)

Trim(s) == TrimEnd(TrimStart(s))

(***************************************************************************)
(* normalizeMessage (part_003:1829-1837).  Each Match operator gives the   *)
(* length of the regular expression's match that starts at s[i], 0 when it *)
(* does not match there.  String.replace with the g flag scans the string  *)
(* from the left: at a match it writes the token and goes on behind the    *)
(* match, elsewhere it copies one character.                               *)
(***************************************************************************)
TokGuid == <<"<", "G", "U", "I", "D", ">">>

TokTimestamp == <<"<", "T", "I", "M", "E", "S", "T", "A", "M", "P", ">">>

TokNum == <<"<", "N", "U", "M", ">">>

TokHex == <<"<", "H", "E", "X", ">">>

\* /\b[0-9a-f]{8}-[0-9a-f]{4}-[0-9a-f]{4}-[0-9a-f]{4}-[0-9a-f]{12}\b/gi
MatchGuid(s, i) ==
    IF /\ BoundaryAt(s, i)
       /\ AllIn(s, i, 8, HexChars) /\ IsChar(s, i + 8, "-")
       /\ AllIn(s, i + 9, 4, HexChars) /\ IsChar(s, i + 13, "-")
       /\ AllIn(s, i + 14, 4, HexChars) /\ IsChar(s, i + 18, "-")
       /\ AllIn(s, i + 19, 4, HexChars) /\ IsChar(s, i + 23, "-")
       /\ AllIn(s, i + 24, 12, HexChars)
       /\ BoundaryAt(s, i + 36)
    THEN 36 ELSE 0

\* /\b\d{4}-\d{2}-\d{2}[T ]\d{2}:\d{2}:\d{2}[^\s]*/g
MatchTimestamp(s, i) ==
    IF /\ BoundaryAt(s, i)
       /\ AllIn(s, i, 4, Digits) /\ IsChar(s, i + 4, "-")
       /\ AllIn(s, i + 5, 2, Digits) /\ IsChar(s, i + 7, "-")
       /\ AllIn(s, i + 8, 2, Digits)
       /\ (IsChar(s, i + 10, "T") \/ IsChar(s, i + 10, " "))
       /\ AllIn(s, i + 11, 2, Digits) /\ IsChar(s, i + 13, ":")
       /\ AllIn(s, i + 14, 2, Digits) /\ IsChar(s, i + 16, ":")
       /\ AllIn(s, i + 17, 2, Digits)
    THEN 19 + RunLen(s, i + 19, {s[k] : k \in DOMAIN s} \ SpaceChars) ELSE 0

\* /\b\d+\b/g : the whole run of digits, when it stands between two word
\* boundaries (no shorter run ends at a boundary)
MatchNum(s, i) ==
    IF /\ BoundaryAt(s, i)
       /\ IsWordAt(s, i) /\ s[i] \in Digits
       /\ BoundaryAt(s, i + RunLen(s, i, Digits))
    THEN RunLen(s, i, Digits) ELSE 0

\* /0x[0-9a-f]+/gi
MatchHex(s, i) ==
    IF /\ IsChar(s, i, "0")
       /\ (IsChar(s, i + 1, "x") \/ IsChar(s, i + 1, "X"))
       /\ RunLen(s, i + 2, HexChars) > 0
    THEN 2 + RunLen(s, i + 2, HexChars) ELSE 0

MatchAt(kind, s, i) ==
    CASE kind = "guid" -> MatchGuid(s, i)
      [] kind = "timestamp" -> MatchTimestamp(s, i)
      [] kind = "num" -> MatchNum(s, i)
      [] kind = "hex" -> MatchHex(s, i)

Token(kind) ==
    CASE kind = "guid" -> TokGuid
      [] kind = "timestamp" -> TokTimestamp
      [] kind = "num" -> TokNum
      [] kind = "hex" -> TokHex

\* the scan at position i: out is the text written so far, next the position
\* the scan goes on from
ScanAt(kind, s, i, st) ==
    IF i < st.next THEN st
    ELSE IF MatchAt(kind, s, i) > 0
         THEN [out |-> st.out \o Token(kind), next |-> i + MatchAt(kind, s, i)]
         ELSE [out |-> Append(st.out, s[i]), next |-> i + 1]

\* the scan over the positions lo..hi, in order: the first half, then the
\* second one unless a match of the first half reaches behind hi
RECURSIVE ScanRange(_, _, _, _, _)
ScanRange(kind, s, lo, hi, st) ==
    IF lo > hi THEN st
    ELSE IF lo = hi THEN ScanAt(kind, s, lo, st)
    ELSE LET mid == (lo + hi) \div 2
             left == ScanRange(kind, s, lo, mid, st)
         IN  IF left.next > hi THEN left ELSE ScanRange(kind, s, mid + 1, hi, left)

ReplaceAll(kind, s) ==
    ScanRange(kind, s, 1, Len(s), [out |-> <<>>, next |-> 1]).out

\* the cut of normalizeMessage and of the pattern's message
MaxMessageLength == 200

normalizeMessage(message) ==
    Trim(Substring0(
        ReplaceAll("hex", ReplaceAll("num", ReplaceAll("timestamp",
            ReplaceAll("guid", message)))),
        MaxMessageLength))

(***************************************************************************)
(* Log records.  A record is a LogEntry with the fields the aggregation    *)
(* reads; _timestamp is a number of time units, NoTimestamp for null.      *)
(***************************************************************************)
NoTimestamp == 0

\* new Date(): the aggregation runs after every record was written
Now == 3

MakeLog(id, severity, message, timestamp) ==
    [_id |-> id, _timestamp |-> timestamp, _severity |-> severity, _message |-> message]

MsgErr1 == <<"e", "r", "r", " ", "1">>

MsgErr22 == <<"e", "r", "r", " ", "2", "2">>

MsgTimeout == <<"t", "i", "m", "e", "o", "u", "t">>

MsgCache == <<"c", "a", "c", "h", "e", " ", "m", "i", "s", "s">>

\* the records the short inputs are made of (their _id is set by position)
LogUniverse ==
    { MakeLog(0, 1, MsgErr1, NoTimestamp),
      MakeLog(0, 0, MsgTimeout, 1),
      MakeLog(0, 2, MsgErr1, 1),
      MakeLog(0, 2, MsgTimeout, NoTimestamp),
      MakeLog(0, 3, MsgErr1, NoTimestamp),
      MakeLog(0, 3, MsgErr22, 1),
      MakeLog(0, 3, MsgErr22, 2),
      MakeLog(0, 3, MsgTimeout, 2),
      MakeLog(0, 4, MsgErr1, 2),
      MakeLog(0, 4, MsgTimeout, NoTimestamp) }

MaxLogs == 3

\* _id is the row's index in the file; the rows reach the aggregation in
\* another order (the worker sorts them), here the reverse one
WithIds(rows) ==
    [i \in DOMAIN rows |-> [rows[i] EXCEPT !._id = Len(rows) - i]]

SmallInputs ==
    UNION { { WithIds(rows) : rows \in [1..n -> LogUniverse] } : n \in 0..MaxLogs }

\* the cut of the returned list
MaxPatterns == 100

MaxOver == 2

\* a message without digits, its own canonical key; one per k
UniqueMessage(k) ==
    <<"u", "p", LowerCase[(k % 26) + 1], LowerCase[((k \div 26) % 26) + 1]>>

\* k distinct messages of severity 3, then some of them again
ManyKeys(k, again) ==
    LET n == k + Len(again)
    IN  [i \in 1..n |->
            MakeLog(i - 1, 3,
                    UniqueMessage(IF i <= k THEN i ELSE again[i - k]),
                    NoTimestamp)]

BigInputs ==
    UNION { UNION { { ManyKeys(k, again) : again \in [1..m -> {k - 1, k}] }
                    : m \in 0..MaxOver }
            : k \in (MaxPatterns - 1)..(MaxPatterns + MaxOver) }

(***************************************************************************)
(* extractErrorPatterns (part_003:1839-1884).  The Map of buckets is the   *)
(* sequence of its values in insertion order, which is the order           *)
(* Array.from(patterns.values()) gives.                                    *)
(***************************************************************************)
HasPattern(patterns, normalized) ==
    \E i \in DOMAIN patterns : patterns[i].normalized = normalized

GetPattern(patterns, normalized) ==
    CHOOSE i \in DOMAIN patterns : patterns[i].normalized = normalized

\* Mutant of BelowThreshold: only verbose records are skipped
BelowThresholdOne(log) == log._severity < 1

\* log._severity < 2: the callback returns at once
BelowThreshold(log) == log._severity < 2

\* log._timestamp || new Date()
TimestampOrNow(log) == IF log._timestamp # NoTimestamp THEN log._timestamp ELSE Now

NewPattern(log, normalized) ==
    [ message |-> Substring0(log._message, MaxMessageLength),
      normalized |-> normalized,
      count |-> 0,
      firstSeen |-> TimestampOrNow(log),
      lastSeen |-> TimestampOrNow(log),
      ids |-> <<>>,
      severity |-> log._severity,
      errorCount |-> 0,
      warningCount |-> 0 ]

\* Mutant of PushId: ids.unshift(log._id)
PushIdFront(ids, id) == <<id>> \o ids

\* pattern.ids.push(log._id)
PushId(ids, id) == Append(ids, id)

\* count++, ids.push, errorCount++ / warningCount++
Counted(pattern, log) ==
    [pattern EXCEPT !.count = @ + 1,
                    !.ids = PushId(@, log._id),
                    !.errorCount = IF log._severity = 3 THEN @ + 1 ELSE @,
                    !.warningCount = IF log._severity = 2 THEN @ + 1 ELSE @]

\* Mutant of Dominant: the bucket keeps the severity it was created with
DominantOfCreator(pattern) == [pattern EXCEPT !.severity = @]

\* pattern.severity = pattern.errorCount > 0 ? 3 : 2
Dominant(pattern) ==
    [pattern EXCEPT !.severity = IF pattern.errorCount > 0 THEN 3 ELSE 2]

\* if (log._timestamp) { firstSeen / lastSeen }
Seen(pattern, log) ==
    IF log._timestamp # NoTimestamp
    THEN [pattern EXCEPT
            !.firstSeen = IF log._timestamp < @ THEN log._timestamp ELSE @,
            !.lastSeen = IF log._timestamp > @ THEN log._timestamp ELSE @]
    ELSE pattern

\* one call of the forEach callback
ProcessLog(patterns, log) ==
    IF BelowThreshold(log) THEN patterns
    ELSE LET normalized == normalizeMessage(log._message)
             present == IF HasPattern(patterns, normalized) THEN patterns
                        ELSE Append(patterns, NewPattern(log, normalized))
             i == GetPattern(present, normalized)
         IN  [present EXCEPT ![i] = Seen(Dominant(Counted(@, log)), log)]

\* logs.forEach of extractErrorPatterns over the first n records: the
\* buckets of the Map before the sort and the slice
RECURSIVE AllPatterns(_, _)
AllPatterns(logs, n) ==
    IF n = 0 THEN <<>> ELSE ProcessLog(AllPatterns(logs, n - 1), logs[n])

\* Mutant of CompareByCount: (a, b) => a.count - b.count
CompareByCountAscending(a, b) == a.count - b.count

\* (a, b) => b.count - a.count
CompareByCount(a, b) == b.count - a.count

\* Array.prototype.sort with this comparator.  The sort is stable: a bucket
\* stands behind the buckets the comparator puts before it and behind the
\* earlier ones it compares equal to
SortByCount(patterns) ==
    LET n == Len(patterns)
        place == [j \in 1..n |->
                    1 + Cardinality({k \in 1..n :
                            \/ CompareByCount(patterns[k], patterns[j]) < 0
                            \/ /\ CompareByCount(patterns[k], patterns[j]) = 0
                               /\ k < j})] \o <<>>
    IN  [r \in 1..n |-> patterns[CHOOSE j \in 1..n : place[j] = r]]

\* Array.prototype.slice(0, n)
Slice0(list, n) == SubSeq(list, 1, IF Len(list) < n THEN Len(list) ELSE n)

EpInputs == SmallInputs \cup BigInputs

EpInit ==
    /\ DashInit
    /\ CfIdle
    /\ UtilIdle
    /\ epLogs \in EpInputs
    /\ epIdx = 0
    /\ epPatterns = <<>>
    /\ epPc = "forEach"
    /\ epResult = <<>>

\* logs.forEach: the callback runs on the next record
EpStep ==
    /\ epPc = "forEach"
    /\ epIdx < Len(epLogs)
    /\ epIdx' = epIdx + 1
    /\ epPatterns' = ProcessLog(epPatterns, epLogs[epIdx + 1])
    /\ UNCHANGED <<epLogs, epPc, epResult>>

\* return Array.from(patterns.values()).sort(...).slice(0, 100)
EpReturn ==
    /\ epPc = "forEach"
    /\ epIdx = Len(epLogs)
    /\ epPc' = "done"
    /\ epResult' = Slice0(SortByCount(epPatterns), MaxPatterns)
    /\ UNCHANGED <<epLogs, epIdx, epPatterns>>

EpNext ==
    \/ EpStep /\ UNCHANGED <<dashVars, cfVars, utilVars>>
    \/ EpReturn /\ UNCHANGED <<dashVars, cfVars, utilVars>>

EpSpec == EpInit /\ [][EpNext]_vars

(***************************************************************************)
(* compareFiles (part_003:1900-2013).  A Map is the sequence of its        *)
(* entries in insertion order, which is the order forEach visits them.     *)
(***************************************************************************)
HasKey(map, normalized) == \E i \in DOMAIN map : map[i].normalized = normalized

GetKey(map, normalized) == map[CHOOSE i \in DOMAIN map : map[i].normalized = normalized]

\* Mutant of BuildPatterns: the Map is keyed by the message as written
BuildPatternsRaw(patterns, log) ==
    IF log._severity < 2 THEN patterns
    ELSE LET present == IF \E i \in DOMAIN patterns : patterns[i].normalized = log._message
                        THEN patterns
                        ELSE Append(patterns,
                                 [normalized |-> log._message, count |-> 0, ids |-> <<>>])
         IN  [i \in DOMAIN present |->
                IF present[i].normalized = log._message
                THEN [present[i] EXCEPT !.count = @ + 1, !.ids = Append(@, log._id)]
                ELSE present[i]]

\* Mutant of BuildPatterns: the entry is made before the severity is looked at
BuildPatternsBeforeFilter(patterns, log) ==
    LET normalized == normalizeMessage(log._message)
        present == IF \E i \in DOMAIN patterns : patterns[i].normalized = normalized
                   THEN patterns
                   ELSE Append(patterns,
                            [normalized |-> normalized, count |-> 0, ids |-> <<>>])
    IN  [i \in DOMAIN present |->
            IF present[i].normalized = normalized /\ log._severity >= 2
            THEN [present[i] EXCEPT !.count = @ + 1, !.ids = Append(@, log._id)]
            ELSE present[i]]

\* the callback of logs1.forEach / logs2.forEach on the Map patterns
BuildPatterns(patterns, log) ==
    IF BelowThreshold(log) THEN patterns
    ELSE LET normalized == normalizeMessage(log._message)
             present == IF HasKey(patterns, normalized) THEN patterns
                        ELSE Append(patterns,
                                 [normalized |-> normalized, count |-> 0, ids |-> <<>>])
         IN  [i \in DOMAIN present |->
                IF present[i].normalized = normalized
                THEN [present[i] EXCEPT !.count = @ + 1, !.ids = Append(@, log._id)]
                ELSE present[i]]

\* the same callback on the Map allPatternMessages
BuildMessages(patterns, messages, log) ==
    IF BelowThreshold(log) THEN messages
    ELSE LET normalized == normalizeMessage(log._message)
         IN  IF ~HasKey(patterns, normalized) /\ ~HasKey(messages, normalized)
             THEN Append(messages,
                      [normalized |-> normalized,
                       message |-> Substring0(log._message, MaxMessageLength)])
             ELSE messages

\* allPatternMessages.get(normalized) || normalized
MessageOf(messages, normalized) ==
    IF HasKey(messages, normalized) /\ GetKey(messages, normalized).message # <<>>
    THEN GetKey(messages, normalized).message
    ELSE normalized

\* the ErrorPattern compareFiles writes for a Map entry
DiffPattern(messages, data) ==
    [ message |-> MessageOf(messages, data.normalized),
      normalized |-> data.normalized,
      count |-> data.count,
      firstSeen |-> Now,
      lastSeen |-> Now,
      ids |-> data.ids,
      severity |-> 3,
      errorCount |-> data.count,
      warningCount |-> 0 ]

\* Mutant of Change: the candidate's count as a percentage of the baseline's
ChangeOfBaseline(count1, count2) == [num |-> count2 * 100, den |-> count1]

\* ((data2.count - data1.count) / data1.count) * 100, as the fraction
\* num / den with den > 0
Change(count1, count2) == [num |-> (count2 - count1) * 100, den |-> count1]

Abs(n) == IF n < 0 THEN 0 - n ELSE n

\* the sign of Math.abs(b.change) - Math.abs(a.change)
CompareByChange(a, b) ==
    Abs(b.change.num) * a.change.den - Abs(a.change.num) * b.change.den

\* bothFiles.sort with this comparator (a stable sort, as SortByCount)
SortByChange(both) ==
    LET n == Len(both)
        place == [j \in 1..n |->
                    1 + Cardinality({k \in 1..n :
                            \/ CompareByChange(both[k], both[j]) < 0
                            \/ /\ CompareByChange(both[k], both[j]) = 0
                               /\ k < j})] \o <<>>
    IN  [r \in 1..n |-> both[CHOOSE j \in 1..n : place[j] = r]]

\* Mutant of ChangeAbove: change >= percent
ChangeAtLeast(change, percent) == change.num >= percent * change.den

\* change > percent, change < percent
ChangeAbove(change, percent) == change.num > percent * change.den

ChangeBelow(change, percent) == change.num < percent * change.den

\* Mutant of OnlyInFile1: the first loop pushes every pattern of file 1
OnlyInFile1Always(patterns2, normalized) == TRUE

\* !patterns2.has(normalized)
OnlyInFile1(patterns2, normalized) == ~HasKey(patterns2, normalized)

\* patterns1.forEach: the patterns found in file 1 only
File1Only(patterns1, patterns2, messages) ==
    LET only == SelectSeq(patterns1, LAMBDA data : OnlyInFile1(patterns2, data.normalized))
    IN  [i \in DOMAIN only |-> DiffPattern(messages, only[i])]

\* patterns2.forEach, no data1: the patterns found in file 2 only
File2Only(patterns1, patterns2, messages) ==
    LET only == SelectSeq(patterns2, LAMBDA data : ~HasKey(patterns1, data.normalized))
    IN  [i \in DOMAIN only |-> DiffPattern(messages, only[i])]

\* patterns2.forEach, data1 found: the patterns of both files
BothFiles(patterns1, patterns2, messages) ==
    LET both == SelectSeq(patterns2, LAMBDA data : HasKey(patterns1, data.normalized))
    IN  [i \in DOMAIN both |->
            [ pattern |-> DiffPattern(messages, both[i]),
              file1Count |-> GetKey(patterns1, both[i].normalized).count,
              file2Count |-> both[i].count,
              change |-> Change(GetKey(patterns1, both[i].normalized).count,
                                both[i].count) ]]

CountSeverity(logs, severity) ==
    Cardinality({i \in DOMAIN logs : logs[i]._severity = severity})

\* calculateFileStats (part_003:1886-1898)
calculateFileStats(logs) ==
    LET withTime == {logs[i]._timestamp : i \in DOMAIN logs} \ {NoTimestamp}
    IN  [ total |-> Len(logs),
          errors |-> CountSeverity(logs, 3),
          warnings |-> CountSeverity(logs, 2),
          info |-> CountSeverity(logs, 1),
          verbose |-> CountSeverity(logs, 0),
          timeStart |-> IF withTime = {} THEN NoTimestamp
                        ELSE CHOOSE t \in withTime : \A u \in withTime : t <= u,
          timeEnd |-> IF withTime = {} THEN NoTimestamp
                      ELSE CHOOSE t \in withTime : \A u \in withTime : t >= u ]

\* the sorts and the returned object
ComparisonResult(logs1, logs2, patterns1, patterns2, messages) ==
    LET file1Only == SortByCount(File1Only(patterns1, patterns2, messages))
        file2Only == SortByCount(File2Only(patterns1, patterns2, messages))
        bothFiles == SortByChange(BothFiles(patterns1, patterns2, messages))
        stats1 == calculateFileStats(logs1)
        stats2 == calculateFileStats(logs2)
    IN  [ file1Only |-> file1Only,
          file2Only |-> file2Only,
          bothFiles |-> bothFiles,
          summary |->
            [ file1Errors |-> stats1.errors,
              file2Errors |-> stats2.errors,
              file1Warnings |-> stats1.warnings,
              file2Warnings |-> stats2.warnings,
              newPatterns |-> Len(file2Only),
              resolvedPatterns |-> Len(file1Only),
              increasedPatterns |->
                  Cardinality({i \in DOMAIN bothFiles : ChangeAbove(bothFiles[i].change, 10)}),
              decreasedPatterns |->
                  Cardinality({i \in DOMAIN bothFiles : ChangeBelow(bothFiles[i].change, -10)}) ] ]

\* logs.forEach of compareFiles over the first n records: the Map of the file
RECURSIVE CfPatternsOf(_, _)
CfPatternsOf(logs, n) ==
    IF n = 0 THEN <<>> ELSE BuildPatterns(CfPatternsOf(logs, n - 1), logs[n])

\* the same loop on allPatternMessages, which starts as messages
RECURSIVE CfMessagesOf(_, _, _)
CfMessagesOf(messages, logs, n) ==
    IF n = 0 THEN messages
    ELSE BuildMessages(CfPatternsOf(logs, n - 1), CfMessagesOf(messages, logs, n - 1),
                       logs[n])

\* compareFiles(logs1, logs2) as one call
compareFiles(logs1, logs2) ==
    ComparisonResult(logs1, logs2,
                     CfPatternsOf(logs1, Len(logs1)), CfPatternsOf(logs2, Len(logs2)),
                     CfMessagesOf(CfMessagesOf(<<>>, logs1, Len(logs1)), logs2, Len(logs2)))

MaxCmpLogs == 2

\* the records the two inputs of the comparison are made of: the files
\* write the key "err <NUM>" differently
CmpUniverse(err) ==
    { MakeLog(0, 3, err, 1),
      MakeLog(0, 3, MsgTimeout, 2),
      MakeLog(0, 2, MsgCache, NoTimestamp),
      MakeLog(0, 1, MsgTimeout, 1) }

CmpInputs(err) ==
    UNION { { WithIds(rows) : rows \in [1..n -> CmpUniverse(err)] } : n \in 0..MaxCmpLogs }

\* the number of records of the repeated pattern in the baseline
BulkBase == 10

MaxDelta == 2

\* n records of severity 3 with one message, then extra ones with another
Bulk(n, message, extra) ==
    [i \in 1..(n + extra) |->
        MakeLog(i - 1, 3, IF i <= n THEN message ELSE MsgTimeout, NoTimestamp)]

\* a pattern met BulkBase times in the baseline and a few times more or
\* less in the candidate, beside a pattern met once or not at all
BulkPairs ==
    { <<Bulk(BulkBase, MsgErr1, 1), Bulk(n, MsgErr22, extra)>> :
        n \in (BulkBase - MaxDelta)..(BulkBase + MaxDelta), extra \in 0..MaxDelta }

\* the pairs of inputs: two short files, a file and itself, two long files
CmpPairs ==
    (CmpInputs(MsgErr1) \X CmpInputs(MsgErr22))
        \cup { <<logs, logs>> : logs \in CmpInputs(MsgErr1) }
        \cup BulkPairs

CfInit ==
    /\ DashInit
    /\ EpIdle
    /\ UtilIdle
    /\ \E pair \in CmpPairs : cfLogs1 = pair[1] /\ cfLogs2 = pair[2]
    /\ cfPc = "build1"
    /\ cfIdx = 0
    /\ cfPatterns1 = <<>>
    /\ cfPatterns2 = <<>>
    /\ cfAllMessages = <<>>
    /\ cfResult = <<>>

\* logs1.forEach: the callback runs on the next record of file 1
CfBuild1 ==
    /\ cfPc = "build1"
    /\ cfIdx < Len(cfLogs1)
    /\ cfIdx' = cfIdx + 1
    /\ cfPatterns1' = BuildPatterns(cfPatterns1, cfLogs1[cfIdx + 1])
    /\ cfAllMessages' = BuildMessages(cfPatterns1, cfAllMessages, cfLogs1[cfIdx + 1])
    /\ UNCHANGED <<cfLogs1, cfLogs2, cfPc, cfPatterns2, cfResult>>

\* logs1.forEach is over, logs2.forEach begins
CfNextFile ==
    /\ cfPc = "build1"
    /\ cfIdx = Len(cfLogs1)
    /\ cfPc' = "build2"
    /\ cfIdx' = 0
    /\ UNCHANGED <<cfLogs1, cfLogs2, cfPatterns1, cfPatterns2, cfAllMessages, cfResult>>

\* logs2.forEach: the callback runs on the next record of file 2
CfBuild2 ==
    /\ cfPc = "build2"
    /\ cfIdx < Len(cfLogs2)
    /\ cfIdx' = cfIdx + 1
    /\ cfPatterns2' = BuildPatterns(cfPatterns2, cfLogs2[cfIdx + 1])
    /\ cfAllMessages' = BuildMessages(cfPatterns2, cfAllMessages, cfLogs2[cfIdx + 1])
    /\ UNCHANGED <<cfLogs1, cfLogs2, cfPc, cfPatterns1, cfResult>>

\* the three lists, the sorts, the statistics and the return
CfReturn ==
    /\ cfPc = "build2"
    /\ cfIdx = Len(cfLogs2)
    /\ cfPc' = "done"
    /\ cfResult' = ComparisonResult(cfLogs1, cfLogs2, cfPatterns1, cfPatterns2,
                                    cfAllMessages)
    /\ UNCHANGED <<cfLogs1, cfLogs2, cfIdx, cfPatterns1, cfPatterns2, cfAllMessages>>

CfNext ==
    \/ CfBuild1 /\ UNCHANGED <<dashVars, epVars, utilVars>>
    \/ CfNextFile /\ UNCHANGED <<dashVars, epVars, utilVars>>
    \/ CfBuild2 /\ UNCHANGED <<dashVars, epVars, utilVars>>
    \/ CfReturn /\ UNCHANGED <<dashVars, epVars, utilVars>>

CfSpec == CfInit /\ [][CfNext]_vars

(***************************************************************************)
(* parseSeverity (csvWorker.ts:64-77, part_003:1762-1775).  A value is a   *)
(* record: type is "undefined", "null", "string" (chars holds the text),   *)
(* "number" (the finite number tenths / 10), "NaN", "Infinity" or          *)
(* "-Infinity".                                                            *)
(***************************************************************************)
JsString(chars) == [type |-> "string", tenths |-> 0, chars |-> chars]

JsNumber(tenths) == [type |-> "number", tenths |-> tenths, chars |-> <<>>]

HexDigitChars == <<"0", "1", "2", "3", "4", "5", "6", "7", "8", "9",
                   "a", "b", "c", "d", "e", "f">>

\* the decimal digits of a natural number
RECURSIVE DigitsOf(_)
DigitsOf(n) ==
    IF n < 10 THEN <<HexDigitChars[n + 1]>>
    ELSE Append(DigitsOf(n \div 10), HexDigitChars[(n % 10) + 1])

\* String(value)
StringOf(value) ==
    CASE value.type = "string" -> value.chars
      [] value.type = "undefined" -> <<"u", "n", "d", "e", "f", "i", "n", "e", "d">>
      [] value.type = "null" -> <<"n", "u", "l", "l">>
      [] value.type = "NaN" -> <<"N", "a", "N">>
      [] value.type = "Infinity" -> <<"I", "n", "f", "i", "n", "i", "t", "y">>
      [] value.type = "-Infinity" -> <<"-">> \o <<"I", "n", "f", "i", "n", "i", "t", "y">>
      [] value.type = "number" ->
            LET k == Abs(value.tenths)
            IN  (IF value.tenths < 0 THEN <<"-">> ELSE <<>>)
                \o DigitsOf(k \div 10)
                \o (IF k % 10 = 0 THEN <<>> ELSE <<".", HexDigitChars[(k % 10) + 1]>>)

\* String.prototype.toLowerCase()
ToLowerCase(s) ==
    [i \in DOMAIN s |->
        IF \E k \in DOMAIN UpperCase : UpperCase[k] = s[i]
        THEN LowerCase[CHOOSE k \in DOMAIN UpperCase : UpperCase[k] = s[i]]
        ELSE s[i]] \o <<>>

\* String.prototype.includes(sub)
Includes(s, sub) ==
    \E i \in 1..(Len(s) - Len(sub) + 1) : SubSeq(s, i, i + Len(sub) - 1) = sub

\* the value of a digit in the radix, the letters in either case
DigitValue(c) ==
    LET l == ToLowerCase(<<c>>)[1]
    IN  (CHOOSE k \in DOMAIN HexDigitChars : HexDigitChars[k] = l) - 1

\* the number written by the first n characters of digits
RECURSIVE ValueOf(_, _, _)
ValueOf(digits, n, radix) ==
    IF n = 0 THEN 0
    ELSE ValueOf(digits, n - 1, radix) * radix + DigitValue(digits[n])

\* parseInt(s) without a radix: white space, a sign, an optional 0x or 0X,
\* then the longest run of digits; NaN when the run is empty
ParseInt(s) ==
    LET t == TrimStart(s)
        signed == Len(t) >= 1 /\ t[1] \in {"+", "-"}
        u == IF signed THEN SubSeq(t, 2, Len(t)) ELSE t
        hex == Len(u) >= 2 /\ u[1] = "0" /\ u[2] \in {"x", "X"}
        radix == IF hex THEN 16 ELSE 10
        digits == IF hex THEN SubSeq(u, 3, Len(u)) ELSE u
        n == RunLen(digits, 1, IF hex THEN HexChars ELSE Digits)
        magnitude == ValueOf(digits, n, radix)
    IN  [ isNaN |-> n = 0,
          value |-> IF signed /\ t[1] = "-" THEN 0 - magnitude ELSE magnitude ]

\* the literals of the includes tests
Keywords ==
    [ error |-> <<"e", "r", "r", "o", "r">>,
      critical |-> <<"c", "r", "i", "t", "i", "c", "a", "l">>,
      fatal |-> <<"f", "a", "t", "a", "l">>,
      warn |-> <<"w", "a", "r", "n">>,
      info |-> <<"i", "n", "f", "o">>,
      information |-> <<"i", "n", "f", "o", "r", "m", "a", "t", "i", "o", "n">>,
      verbose |-> <<"v", "e", "r", "b", "o", "s", "e">>,
      debug |-> <<"d", "e", "b", "u", "g">>,
      trace |-> <<"t", "r", "a", "c", "e">> ]

\* value === undefined || value === null || value === ''
IsAbsent(value) ==
    \/ value.type \in {"undefined", "null"}
    \/ value.type = "string" /\ value.chars = <<>>

\* Mutant of InRange: any number parsed is returned
InRangeAny(num) == ~num.isNaN

\* !isNaN(num) && num >= 0 && num <= 4
InRange(num) == ~num.isNaN /\ num.value >= 0 /\ num.value <= 4

\* Mutant of ByKeyword: 'warn' is looked for before 'error'
ByKeywordWarnFirst(str) ==
    IF Includes(str, Keywords.warn) THEN 2
    ELSE IF Includes(str, Keywords.error) \/ Includes(str, Keywords.critical) \/ Includes(str, Keywords.fatal)
    THEN 3
    ELSE IF Includes(str, Keywords.info) \/ Includes(str, Keywords.information) THEN 1
    ELSE IF Includes(str, Keywords.verbose) \/ Includes(str, Keywords.debug) \/ Includes(str, Keywords.trace)
    THEN 0
    ELSE 1

\* the four includes tests and the default
ByKeyword(str) ==
    IF Includes(str, Keywords.error) \/ Includes(str, Keywords.critical) \/ Includes(str, Keywords.fatal)
    THEN 3
    ELSE IF Includes(str, Keywords.warn) THEN 2
    ELSE IF Includes(str, Keywords.info) \/ Includes(str, Keywords.information) THEN 1
    ELSE IF Includes(str, Keywords.verbose) \/ Includes(str, Keywords.debug) \/ Includes(str, Keywords.trace)
    THEN 0
    ELSE 1

parseSeverity(value) ==
    IF IsAbsent(value) THEN 0
    ELSE LET str == Trim(ToLowerCase(StringOf(value)))
             num == ParseInt(str)
         IN  IF InRange(num) THEN num.value ELSE ByKeyword(str)

\* the padding of a cell
Pads == {<<>>, <<" ">>}

\* the number a cell starts with: its text and the integer parseInt reads
\* from it (isNaN when the cell starts with no number)
Numeral(chars, value) == [chars |-> chars, isNaN |-> FALSE, value |-> value]

NoNumeral == [chars |-> <<>>, isNaN |-> TRUE, value |-> 0]

Numerals ==
    { NoNumeral,
      Numeral(<<"0">>, 0), Numeral(<<"1">>, 1), Numeral(<<"3">>, 3), Numeral(<<"4">>, 4),
      Numeral(<<"5">>, 5), Numeral(<<"9", "9">>, 99), Numeral(<<"-", "1">>, 0 - 1),
      Numeral(<<"+", "2">>, 2), Numeral(<<"0", "0", "7">>, 7), Numeral(<<"0", "0", "4">>, 4),
      Numeral(<<"0", "x", "3">>, 3), Numeral(<<"0", "X", "1", "F">>, 31), Numeral(<<"2", ".", "5">>, 2),
      Numeral(<<"-", "0">>, 0) }

\* the text of a cell after its number
Words ==
    { <<>>, <<"e", "r", "r", "o", "r">>, <<"E", "r", "r", "o", "r">>, <<"E", "R", "R", "O", "R">>, <<"c", "r", "i", "t", "i", "c", "a", "l">>, <<"f", "a", "t", "a", "l">>,
      <<"w", "a", "r", "n", "i", "n", "g">>, <<"W", "a", "r", "n", "i", "n", "g">>, <<"w", "a", "r", "n">>, <<"i", "n", "f", "o">>, <<"i", "n", "f", "o", "r", "m", "a", "t", "i", "o", "n">>,
      <<"I", "n", "f", "o", "r", "m", "a", "t", "i", "o", "n">>, <<"v", "e", "r", "b", "o", "s", "e">>, <<"V", "e", "r", "b", "o", "s", "e">>, <<"d", "e", "b", "u", "g">>, <<"t", "r", "a", "c", "e">>,
      <<"s", "o", "m", "e", "t", "h", "i", "n", "g", "_", "u", "n", "k", "n", "o", "w", "n">>, <<"H", "t", "t", "p", "E", "r", "r", "o", "r">>, <<"U", "s", "e", "r", "W", "a", "r", "n", "i", "n", "g">>, <<"C", "R", "I", "T", "I", "C", "A", "L">>,
      <<"w", "a", "r", "n", " ", "e", "r", "r", "o", "r">>, <<"i", "n", "f", "o", " ", "w", "a", "r", "n", "i", "n", "g">>, <<"d", "e", "b", "u", "g", " ", "i", "n", "f", "o">>, <<"t", "r", "a", "c", "e", " ", "3">>,
      <<"l", "e", "v", "e", "l">> }

\* a cell: padding, a numeral, a space when a word follows the numeral,
\* the word, padding
Cell(pad1, numeral, word, pad2) ==
    [ numeral |-> numeral,
      chars |-> pad1 \o numeral.chars
                \o (IF numeral.isNaN \/ word = <<>> THEN <<>> ELSE <<" ">>)
                \o word \o pad2 ]

Cells == { Cell(pad1, numeral, word, pad2) :
              pad1 \in Pads, numeral \in Numerals, word \in Words, pad2 \in Pads }

\* numbers, as tenths: -1.5 .. 5.5 and 99
MaxTenths == 55

Numbers == { JsNumber(k) : k \in ((0 - 15)..MaxTenths) \cup {990} }

PsInputs ==
    { [JsUndefined EXCEPT !.type = type] :
          type \in {"undefined", "null", "NaN", "Infinity", "-Infinity"} }
        \cup { JsString(<<" ", " ", " ">>) }
        \cup Numbers
        \cup { JsString(cell.chars) : cell \in Cells }

PsInit ==
    /\ DashInit
    /\ EpIdle
    /\ CfIdle
    /\ DcIdle
    /\ WkIdle
    /\ FnIdle
    /\ psValue \in PsInputs
    /\ psPc = "call"
    /\ psResult = NoResult

\* the call returns
PsCall ==
    /\ psPc = "call"
    /\ psResult' = parseSeverity(psValue)
    /\ psPc' = "done"
    /\ UNCHANGED psValue

PsNext == PsCall /\ UNCHANGED <<dashVars, epVars, cfVars, dcVars, wkVars, fnVars>>

PsSpec == PsInit /\ [][PsNext]_vars

(***************************************************************************)
(* findColumn and detectColumnMapping (csvWorker.ts:27-62,                 *)
(* part_003:1722-1760).  A column name is a sequence of characters.        *)
(***************************************************************************)
TIMESTAMP_PATTERNS ==
    << <<"t", "i", "m", "e", "s", "t", "a", "m", "p">>,
       <<"t", "i", "m", "e">>,
       <<"d", "a", "t", "e", "t", "i", "m", "e">>,
       <<"d", "a", "t", "e">>,
       <<"c", "r", "e", "a", "t", "e", "d">>,
       <<"l", "o", "g", "g", "e", "d">>,
       <<"e", "v", "e", "n", "t", "t", "i", "m", "e">>,
       <<"t", "i", "m", "e", "g", "e", "n", "e", "r", "a", "t", "e", "d">>,
       <<"i", "n", "g", "e", "s", "t", "i", "o", "n", "t", "i", "m", "e">>,
       <<"c", "l", "i", "e", "n", "t", "t", "i", "m", "e">>,
       <<"T", "i", "m", "e", "s", "t", "a", "m", "p">>,
       <<"T", "i", "m", "e">>,
       <<"D", "a", "t", "e", "T", "i", "m", "e">>,
       <<"D", "a", "t", "e">>,
       <<"T", "i", "m", "e", "G", "e", "n", "e", "r", "a", "t", "e", "d">> >>

SEVERITY_PATTERNS ==
    << <<"s", "e", "v", "e", "r", "i", "t", "y", "l", "e", "v", "e", "l">>,
       <<"s", "e", "v", "e", "r", "i", "t", "y">>,
       <<"l", "e", "v", "e", "l">>,
       <<"l", "o", "g", "l", "e", "v", "e", "l">>,
       <<"t", "y", "p", "e">>,
       <<"S", "e", "v", "e", "r", "i", "t", "y", "L", "e", "v", "e", "l">>,
       <<"S", "e", "v", "e", "r", "i", "t", "y">>,
       <<"L", "e", "v", "e", "l">>,
       <<"L", "o", "g", "L", "e", "v", "e", "l">>,
       <<"T", "y", "p", "e">> >>

MESSAGE_PATTERNS ==
    << <<"m", "e", "s", "s", "a", "g", "e">>,
       <<"m", "s", "g">>,
       <<"d", "e", "s", "c", "r", "i", "p", "t", "i", "o", "n">>,
       <<"t", "e", "x", "t">>,
       <<"d", "e", "t", "a", "i", "l", "s">>,
       <<"c", "o", "n", "t", "e", "n", "t">>,
       <<"r", "e", "n", "d", "e", "r", "e", "d", "m", "e", "s", "s", "a", "g", "e">>,
       <<"i", "n", "n", "e", "r", "m", "o", "s", "t", "m", "e", "s", "s", "a", "g", "e">>,
       <<"o", "u", "t", "e", "r", "m", "e", "s", "s", "a", "g", "e">>,
       <<"p", "r", "o", "b", "l", "e", "m", "i", "d">>,
       <<"M", "e", "s", "s", "a", "g", "e">>,
       <<"M", "s", "g">>,
       <<"D", "e", "s", "c", "r", "i", "p", "t", "i", "o", "n">>,
       <<"T", "e", "x", "t">>,
       <<"D", "e", "t", "a", "i", "l", "s">>,
       <<"R", "e", "n", "d", "e", "r", "e", "d", "M", "e", "s", "s", "a", "g", "e">> >>

\* c.toLowerCase() === pattern.toLowerCase()
EqualsPattern(c, pattern) == ToLowerCase(c) = ToLowerCase(pattern)

\* c.toLowerCase().includes(pattern.toLowerCase())
IncludesPattern(c, pattern) == Includes(ToLowerCase(c), ToLowerCase(pattern))

\* columns.find with the first test: the place of the first column that
\* passes, 0 for undefined
FindEqual(columns, pattern) ==
    IF \E i \in DOMAIN columns : EqualsPattern(columns[i], pattern)
    THEN CHOOSE i \in DOMAIN columns :
            /\ EqualsPattern(columns[i], pattern)
            /\ \A j \in 1..(i - 1) : ~EqualsPattern(columns[j], pattern)
    ELSE 0

\* columns.find with the second test
FindIncluding(columns, pattern) ==
    IF \E i \in DOMAIN columns : IncludesPattern(columns[i], pattern)
    THEN CHOOSE i \in DOMAIN columns :
            /\ IncludesPattern(columns[i], pattern)
            /\ \A j \in 1..(i - 1) : ~IncludesPattern(columns[j], pattern)
    ELSE 0

\* if (found): a column was found and its name is not ''
Truthy(columns, found) == found # 0 /\ columns[found] # <<>>

LeastOf(set) == CHOOSE p \in set : \A o \in set : p <= o

\* Mutant of findColumn: one loop, each pattern tried for equality and
\* then for inclusion before the next pattern
findColumnOneLoop(columns, patterns) ==
    LET hits == {p \in DOMAIN patterns :
                    \/ Truthy(columns, FindEqual(columns, patterns[p]))
                    \/ Truthy(columns, FindIncluding(columns, patterns[p]))}
    IN  IF hits = {} THEN <<>>
        ELSE LET pattern == patterns[LeastOf(hits)]
             IN  IF Truthy(columns, FindEqual(columns, pattern))
                 THEN columns[FindEqual(columns, pattern)]
                 ELSE columns[FindIncluding(columns, pattern)]

\* the two loops over patterns, each returning at its first hit
findColumn(columns, patterns) ==
    LET exact == {p \in DOMAIN patterns :
                     Truthy(columns, FindEqual(columns, patterns[p]))}
        partial == {p \in DOMAIN patterns :
                       Truthy(columns, FindIncluding(columns, patterns[p]))}
    IN  IF exact # {} THEN columns[FindEqual(columns, patterns[LeastOf(exact)])]
        ELSE IF partial # {}
        THEN columns[FindIncluding(columns, patterns[LeastOf(partial)])]
        ELSE <<>>

detectColumnMapping(columns) ==
    [ timestamp |-> findColumn(columns, TIMESTAMP_PATTERNS),
      severity |-> findColumn(columns, SEVERITY_PATTERNS),
      message |-> findColumn(columns, MESSAGE_PATTERNS) ]

\* the column names of the headers
ColumnNames ==
    { <<"m", "y", "_", "t", "i", "m", "e", "s", "t", "a", "m", "p", "_", "f", "i", "e", "l", "d">>,
      <<"d", "a", "t", "e", "t", "i", "m", "e">>,
      <<"t", "i", "m", "e", "s", "t", "a", "m", "p">>,
      <<"T", "i", "m", "e">>,
      <<"m", "s", "g", "_", "t", "y", "p", "e">>,
      <<"M", "e", "s", "s", "a", "g", "e">>,
      <<"m", "e", "s", "s", "a", "g", "e">>,
      <<"L", "e", "v", "e", "l">>,
      <<"s", "e", "v", "e", "r", "i", "t", "y", "L", "e", "v", "e", "l">>,
      <<"f", "o", "o">> }

MaxColumns == 2

\* the sequences of at most n names
RECURSIVE SeqsUpTo(_, _)
SeqsUpTo(names, n) ==
    IF n = 0 THEN {<<>>}
    ELSE LET shorter == SeqsUpTo(names, n - 1)
         IN  shorter \cup {Append(list, name) : list \in shorter, name \in names}

DcInputs == SeqsUpTo(ColumnNames, MaxColumns)

DcInit ==
    /\ DashInit
    /\ EpIdle
    /\ CfIdle
    /\ PsIdle
    /\ WkIdle
    /\ FnIdle
    /\ dcColumns \in DcInputs
    /\ dcPc = "call"
    /\ dcMapping = NoMapping

\* the call returns
DcCall ==
    /\ dcPc = "call"
    /\ dcMapping' = detectColumnMapping(dcColumns)
    /\ dcPc' = "done"
    /\ UNCHANGED dcColumns

DcNext == DcCall /\ UNCHANGED <<dashVars, epVars, cfVars, psVars, wkVars, fnVars>>

DcSpec == DcInit /\ [][DcNext]_vars

(***************************************************************************)
(* self.onmessage of the worker (csvWorker.ts:108-186): the callbacks      *)
(* Papa.parse calls with the parsed file.  A row is the sequence of its    *)
(* cells, row[i] the cell of columns[i].  A Date is modelled by its year.  *)
(***************************************************************************)
\* the rows of parseResult.data, from its runs
RECURSIVE RowsUpTo(_, _)
RowsUpTo(data, n) ==
    IF n = 0 THEN <<>>
    ELSE RowsUpTo(data, n - 1) \o ([i \in 1..data[n].times |-> data[n].row] \o <<>>)

RowsOf(data) == RowsUpTo(data, Len(data))

\* parseResult.data.length
RECURSIVE CountUpTo(_, _)
CountUpTo(data, n) == IF n = 0 THEN 0 ELSE CountUpTo(data, n - 1) + data[n].times

RowCount(data) == CountUpTo(data, Len(data))

\* row[name], <<>> for undefined
CellOf(row, columns, name) ==
    IF \E i \in DOMAIN columns : columns[i] = name
    THEN row[CHOOSE i \in DOMAIN columns : columns[i] = name]
    ELSE <<>>

\* new Date(value) is a valid date: the ISO form YYYY
IsDate(value) == Len(value) = 4 /\ \A i \in 1..4 : value[i] \in Digits

\* parseTimestamp: NoTimestamp for null
parseTimestamp(value) ==
    IF value = <<>> THEN NoTimestamp
    ELSE IF IsDate(value) THEN ValueOf(value, 4, 10)
    ELSE NoTimestamp

\* Object.values(row).find(v => typeof v === 'string' && String(v).length > 50) || ''
LongCell(row) ==
    IF \E i \in DOMAIN row : Len(row[i]) > 50
    THEN row[CHOOSE i \in DOMAIN row :
                /\ Len(row[i]) > 50
                /\ \A j \in 1..(i - 1) : Len(row[j]) <= 50]
    ELSE <<>>

\* the value of a property read from the parsed object: a string (chars),
\* an array of strings (items), a truthy value of another kind, or absent
JsonText(chars) == [kind |-> "string", chars |-> chars, items |-> <<>>]

JsonArray(items) == [kind |-> "array", chars |-> <<>>, items |-> items]

JsonOther(kind) == [kind |-> kind, chars |-> <<>>, items |-> <<>>]

JsonAbsent == JsonOther("absent")

\* what JSON.parse gives: it throws, or returns null, a number, a string
\* or an array (all without the two properties), or an object with its
\* properties InstanceName and instanceName
JsonObject(upper, lower) == [kind |-> "object", InstanceName |-> upper, instanceName |-> lower]

JsonPlain(kind) == [kind |-> kind, InstanceName |-> JsonAbsent, instanceName |-> JsonAbsent]

JsonThrows == JsonPlain("throws")

\* JSON.parse on the customDimensions cells of the model
JsonTable ==
    { [ text |-> <<"{", "o", "o", "p", "s">>,
        value |-> JsonThrows ],
      [ text |-> <<"n", "u", "l", "l">>,
        value |-> JsonPlain("null") ],
      [ text |-> <<"5">>,
        value |-> JsonPlain("number") ],
      [ text |-> <<"\"", "s", "r", "v", "-", "C", "M", "\"">>,
        value |-> JsonPlain("string") ],
      [ text |-> <<"[", "\"", "-", "C", "M", "\"", "]">>,
        value |-> JsonPlain("array") ],
      [ text |-> <<"{", "\"", "I", "n", "s", "t", "a", "n", "c", "e", "N", "a", "m", "e", "\"", ":", "\"", "s", "r", "v", "-", "C", "M", "\"", "}">>,
        value |-> JsonObject(JsonText(<<"s", "r", "v", "-", "C", "M">>), JsonAbsent) ],
      [ text |-> <<"{", "\"", "I", "n", "s", "t", "a", "n", "c", "e", "N", "a", "m", "e", "\"", ":", "\"", "s", "r", "v", "-", "C", "D", "\"", "}">>,
        value |-> JsonObject(JsonText(<<"s", "r", "v", "-", "C", "D">>), JsonAbsent) ],
      [ text |-> <<"{", "\"", "I", "n", "s", "t", "a", "n", "c", "e", "N", "a", "m", "e", "\"", ":", "\"", "s", "r", "v", "-", "X", "P", "\"", "}">>,
        value |-> JsonObject(JsonText(<<"s", "r", "v", "-", "X", "P">>), JsonAbsent) ],
      [ text |-> <<"{", "\"", "I", "n", "s", "t", "a", "n", "c", "e", "N", "a", "m", "e", "\"", ":", "\"", "w", "e", "b", "0", "1", "\"", "}">>,
        value |-> JsonObject(JsonText(<<"w", "e", "b", "0", "1">>), JsonAbsent) ],
      [ text |-> <<"{", "\"", "I", "n", "s", "t", "a", "n", "c", "e", "N", "a", "m", "e", "\"", ":", "\"", "w", "e", "b", "-", "C", "M", "-", "0", "1", "\"", "}">>,
        value |-> JsonObject(JsonText(<<"w", "e", "b", "-", "C", "M", "-", "0", "1">>), JsonAbsent) ],
      [ text |-> <<"{", "\"", "I", "n", "s", "t", "a", "n", "c", "e", "N", "a", "m", "e", "\"", ":", "\"", "a", "-", "X", "P", "-", "C", "D", "\"", "}">>,
        value |-> JsonObject(JsonText(<<"a", "-", "X", "P", "-", "C", "D">>), JsonAbsent) ],
      [ text |-> <<"{", "\"", "i", "n", "s", "t", "a", "n", "c", "e", "N", "a", "m", "e", "\"", ":", "\"", "s", "r", "v", "-", "C", "D", "\"", "}">>,
        value |-> JsonObject(JsonAbsent, JsonText(<<"s", "r", "v", "-", "C", "D">>)) ],
      [ text |-> <<"{", "\"", "I", "n", "s", "t", "a", "n", "c", "e", "N", "a", "m", "e", "\"", ":", "\"", "\"", ",", "\"", "i", "n", "s", "t", "a", "n", "c", "e", "N", "a", "m", "e", "\"", ":", "\"", "s", "r", "v", "-", "X", "P", "\"", "}">>,
        value |-> JsonObject(JsonText(<<>>), JsonText(<<"s", "r", "v", "-", "X", "P">>)) ],
      [ text |-> <<"{", "\"", "I", "n", "s", "t", "a", "n", "c", "e", "N", "a", "m", "e", "\"", ":", "\"", "\"", "}">>,
        value |-> JsonObject(JsonText(<<>>), JsonAbsent) ],
      [ text |-> <<"{", "\"", "R", "o", "l", "e", "\"", ":", "\"", "x", "\"", "}">>,
        value |-> JsonObject(JsonAbsent, JsonAbsent) ],
      [ text |-> <<"{", "\"", "I", "n", "s", "t", "a", "n", "c", "e", "N", "a", "m", "e", "\"", ":", "5", "}">>,
        value |-> JsonObject(JsonOther("number"), JsonAbsent) ],
      [ text |-> <<"{", "\"", "I", "n", "s", "t", "a", "n", "c", "e", "N", "a", "m", "e", "\"", ":", "t", "r", "u", "e", "}">>,
        value |-> JsonObject(JsonOther("boolean"), JsonAbsent) ],
      [ text |-> <<"{", "\"", "I", "n", "s", "t", "a", "n", "c", "e", "N", "a", "m", "e", "\"", ":", "{", "\"", "a", "\"", ":", "1", "}", "}">>,
        value |-> JsonObject(JsonOther("object"), JsonAbsent) ],
      [ text |-> <<"{", "\"", "I", "n", "s", "t", "a", "n", "c", "e", "N", "a", "m", "e", "\"", ":", "[", "\"", "-", "C", "M", "\"", "]", "}">>,
        value |-> JsonObject(JsonArray(<<<<"-", "C", "M">>>>), JsonAbsent) ],
      [ text |-> <<"{", "\"", "I", "n", "s", "t", "a", "n", "c", "e", "N", "a", "m", "e", "\"", ":", "[", "\"", "w", "e", "b", "0", "1", "\"", "]", "}">>,
        value |-> JsonObject(JsonArray(<<<<"w", "e", "b", "0", "1">>>>), JsonAbsent) ] }

JsonParse(text) == (CHOOSE e \in JsonTable : e.text = text).value

\* a || ...: the value is truthy
IsTruthy(value) ==
    /\ value.kind # "absent"
    /\ value.kind = "string" => value.chars # <<>>

\* instanceName.includes(sub): String.prototype.includes or
\* Array.prototype.includes
JsIncludes(value, sub) ==
    IF value.kind = "string" THEN Includes(value.chars, sub)
    ELSE \E i \in DOMAIN value.items : value.items[i] = sub

\* the includes tests on instanceName; a value without includes throws and
\* the catch block returns undefined
Classify(instanceName) ==
    IF instanceName.kind \notin {"string", "array"} THEN "undefined"
    ELSE IF JsIncludes(instanceName, <<"-", "C", "M">>) THEN "CM"
    ELSE IF JsIncludes(instanceName, <<"-", "C", "D">>) THEN "CD"
    ELSE IF JsIncludes(instanceName, <<"-", "X", "P">>) THEN "XP"
    ELSE IF IsTruthy(instanceName) THEN "Other"
    ELSE "undefined"

\* extractServerRole (csvWorker.ts:86-106)
extractServerRole(row, columns) ==
    LET names == { <<"c", "u", "s", "t", "o", "m", "d", "i", "m", "e", "n", "s", "i", "o", "n", "s">>,
                   <<"c", "u", "s", "t", "o", "m", "_", "d", "i", "m", "e", "n", "s", "i", "o", "n", "s">> }
        found == {i \in DOMAIN columns : ToLowerCase(columns[i]) \in names}
    IN  IF found = {} \/ columns[LeastOf(found)] = <<>> THEN "undefined"
        ELSE IF CellOf(row, columns, columns[LeastOf(found)]) = <<>> THEN "undefined"
        ELSE LET dims == JsonParse(CellOf(row, columns, columns[LeastOf(found)]))
             IN  IF dims.kind \in {"throws", "null"} THEN "undefined"
                 ELSE Classify(IF IsTruthy(dims.InstanceName) THEN dims.InstanceName
                               ELSE IF IsTruthy(dims.instanceName) THEN dims.instanceName
                               ELSE JsonText(<<>>))

\* the (rowsProcessed, totalRows) with totalRows in 1..60, 100 or 2050 for
\* which (rowsProcessed / totalRows) * 100, computed in IEEE 754 double
\* precision, is just below the integer rowsProcessed * 100 / totalRows
RoundsBelow == {<<29, 50>>, <<29, 100>>, <<57, 100>>, <<58, 100>>, <<1189, 2050>>}

\* Mutant of Progress: the share of rows processed in thousandths
ProgressPerMille(processed, total) == (processed * 1000) \div total

\* Math.floor((rowsProcessed / totalRows) * 100)
Progress(processed, total) ==
    ((processed * 100) \div total) - (IF <<processed, total>> \in RoundsBelow THEN 1 ELSE 0)

\* the LogEntry the map callback returns for row at index (0-based)
\* Mutant of LogEntry: without a severity column the record gets the
\* severity of an absent cell
LogEntryAbsentSeverity(row, index, columns, mapping, fileIndex) ==
    [ _id |-> index,
      _timestamp |-> IF mapping.timestamp # <<>>
                     THEN parseTimestamp(CellOf(row, columns, mapping.timestamp))
                     ELSE NoTimestamp,
      _severity |-> IF mapping.severity # <<>>
                    THEN parseSeverity(JsString(CellOf(row, columns, mapping.severity)))
                    ELSE parseSeverity(JsUndefined),
      _message |-> IF mapping.message # <<>>
                   THEN CellOf(row, columns, mapping.message)
                   ELSE LongCell(row),
      _raw |-> row,
      _fileIndex |-> fileIndex,
      _serverRole |-> extractServerRole(row, columns) ]

LogEntry(row, index, columns, mapping, fileIndex) ==
    [ _id |-> index,
      _timestamp |-> IF mapping.timestamp # <<>>
                     THEN parseTimestamp(CellOf(row, columns, mapping.timestamp))
                     ELSE NoTimestamp,
      _severity |-> IF mapping.severity # <<>>
                    THEN parseSeverity(JsString(CellOf(row, columns, mapping.severity)))
                    ELSE 1,
      _message |-> IF mapping.message # <<>>
                   THEN CellOf(row, columns, mapping.message)
                   ELSE LongCell(row),
      _raw |-> row,
      _fileIndex |-> fileIndex,
      _serverRole |-> extractServerRole(row, columns) ]

\* Mutant of CompareByTime: oldest first
CompareOldestFirst(a, b) ==
    IF a._timestamp = NoTimestamp /\ b._timestamp = NoTimestamp THEN 0
    ELSE IF a._timestamp = NoTimestamp THEN 1
    ELSE IF b._timestamp = NoTimestamp THEN 0 - 1
    ELSE a._timestamp - b._timestamp

\* the comparator of logs.sort: newest first, no timestamp last
CompareByTime(a, b) ==
    IF a._timestamp = NoTimestamp /\ b._timestamp = NoTimestamp THEN 0
    ELSE IF a._timestamp = NoTimestamp THEN 1
    ELSE IF b._timestamp = NoTimestamp THEN 0 - 1
    ELSE b._timestamp - a._timestamp

\* Mutant of SortByTime: the records are numbered again after the sort
SortByTimeRenumbered(logs) ==
    LET n == Len(logs)
        place == [j \in 1..n |->
                    1 + Cardinality({k \in 1..n :
                            \/ CompareByTime(logs[k], logs[j]) < 0
                            \/ /\ CompareByTime(logs[k], logs[j]) = 0
                               /\ k < j})] \o <<>>
    IN  [r \in 1..n |-> [logs[CHOOSE j \in 1..n : place[j] = r] EXCEPT !._id = r - 1]]

\* logs.sort with this comparator (a stable sort, as SortByCount)
SortByTime(logs) ==
    LET n == Len(logs)
        place == [j \in 1..n |->
                    1 + Cardinality({k \in 1..n :
                            \/ CompareByTime(logs[k], logs[j]) < 0
                            \/ /\ CompareByTime(logs[k], logs[j]) = 0
                               /\ k < j})] \o <<>>
    IN  [r \in 1..n |-> logs[CHOOSE j \in 1..n : place[j] = r]] \o <<>>

\* the 'complete' message
CompleteMessage(rows, columns, fileIndex) ==
    LET mapping == detectColumnMapping(columns)
        logs == [i \in DOMAIN rows |->
                    LogEntry(rows[i], i - 1, columns, mapping, fileIndex)] \o <<>>
    IN  [ type |-> "complete",
          data |-> [ logs |-> SortByTime(logs),
                     columns |-> columns,
                     detectedMapping |-> mapping ] ]

HeaderFull == << <<"t", "i", "m", "e", "s", "t", "a", "m", "p">>, <<"s", "e", "v", "e", "r", "i", "t", "y", "L", "e", "v", "e", "l">>, <<"m", "e", "s", "s", "a", "g", "e">> >>

HeaderNoTime == << <<"s", "e", "v", "e", "r", "i", "t", "y", "L", "e", "v", "e", "l">>, <<"m", "e", "s", "s", "a", "g", "e">> >>

\* rows under HeaderFull and under HeaderNoTime
RowsFull ==
    { << <<"2", "0", "2", "3">>, <<"3">>, <<"t", "i", "m", "e", "o", "u", "t">> >>,
      << <<"2", "0", "2", "4">>, <<"3">>, <<"t", "i", "m", "e", "o", "u", "t">> >>,
      << <<"s", "o", "o", "n">>, <<"3">>, <<"t", "i", "m", "e", "o", "u", "t">> >>,
      << <<>>, <<"3">>, <<"t", "i", "m", "e", "o", "u", "t">> >>,
      << <<"2", "0", "2", "4">>, <<"w", "a", "r", "n", "i", "n", "g">>, <<"c", "a", "c", "h", "e", " ", "m", "i", "s", "s">> >> }

HeaderDims == << <<"m", "e", "s", "s", "a", "g", "e">>, <<"c", "u", "s", "t", "o", "m", "D", "i", "m", "e", "n", "s", "i", "o", "n", "s">> >>

\* rows under HeaderDims: every cell JSON.parse is modelled on, and the empty cell
RowsDims == { << <<"t", "i", "m", "e", "o", "u", "t">>, e.text >> : e \in JsonTable } \cup { << <<"t", "i", "m", "e", "o", "u", "t">>, <<>> >> }

HeaderNoSeverity == << <<"t", "i", "m", "e", "s", "t", "a", "m", "p">>, <<"m", "e", "s", "s", "a", "g", "e">> >>

\* rows under HeaderNoSeverity
RowsNoSeverity == { << <<"2", "0", "2", "4">>, <<"t", "i", "m", "e", "o", "u", "t">> >>, << <<>>, <<"c", "a", "c", "h", "e", " ", "m", "i", "s", "s">> >> }

RowsNoTime == { << <<"3">>, <<"t", "i", "m", "e", "o", "u", "t">> >>, << <<"w", "a", "r", "n", "i", "n", "g">>, <<"c", "a", "c", "h", "e", " ", "m", "i", "s", "s">> >> }

MaxRows == 3

\* a parsed file: its header and its rows, each row a run of length 1
Parsed(columns, rows) ==
    [ columns |-> columns,
      data |-> [i \in DOMAIN rows |-> [row |-> rows[i], times |-> 1]] \o <<>> ]

WkInputs ==
    { Parsed(HeaderFull, rows) : rows \in SeqsUpTo(RowsFull, MaxRows) }
        \cup { Parsed(HeaderNoTime, rows) : rows \in SeqsUpTo(RowsNoTime, MaxRows) }
        \cup { Parsed(HeaderDims, <<row>>) : row \in RowsDims }
        \cup { Parsed(HeaderNoSeverity, rows) : rows \in SeqsUpTo(RowsNoSeverity, MaxRows) }

\* large files: the same row again and again
BulkRows == {100, 2050}

WkBulkInputs ==
    { [ columns |-> HeaderFull,
        data |-> << [ row |-> << <<>>, <<"3">>, <<"t", "i", "m", "e", "o", "u", "t">> >>,
                      times |-> n ] >> ] : n \in BulkRows }

\* Papa.parse has been called with the file of the message
WkStart(inputs) ==
    /\ DashInit
    /\ EpIdle
    /\ CfIdle
    /\ PsIdle
    /\ DcIdle
    /\ FnIdle
    /\ \E parsed \in inputs : wkColumns = parsed.columns /\ wkData = parsed.data
    /\ wkFileIndex \in Slots
    /\ wkPc = "parse"
    /\ wkRowsProcessed = 0
    /\ wkLastProgressUpdate = 0
    /\ wkPosted = <<>>

WkInit == WkStart(WkInputs)

WkBulkInit == WkStart(WkBulkInputs)

\* the error callback
WkError ==
    /\ wkPc = "parse"
    /\ wkPosted' = Append(wkPosted, [type |-> "error", message |-> "parse error"])
    /\ wkPc' = "done"
    /\ UNCHANGED <<wkColumns, wkData, wkFileIndex, wkRowsProcessed, wkLastProgressUpdate>>

\* the complete callback up to the call of map
WkParsed ==
    /\ wkPc = "parse"
    /\ wkPc' = "map"
    /\ UNCHANGED <<wkColumns, wkData, wkFileIndex, wkRowsProcessed, wkLastProgressUpdate,
                   wkPosted>>

\* the map callback on the next row
WkMapRow ==
    /\ wkPc = "map"
    /\ wkRowsProcessed < RowCount(wkData)
    /\ wkRowsProcessed' = wkRowsProcessed + 1
    /\ LET progress == Progress(wkRowsProcessed + 1, RowCount(wkData))
       IN  IF progress - wkLastProgressUpdate >= 10 \/ (wkRowsProcessed + 1) % 1000 = 0
           THEN /\ wkPosted' = Append(wkPosted, [type |-> "progress", percent |-> progress])
                /\ wkLastProgressUpdate' = progress
           ELSE UNCHANGED <<wkPosted, wkLastProgressUpdate>>
    /\ UNCHANGED <<wkColumns, wkData, wkFileIndex, wkPc>>

\* after map: the sort and the 'complete' message
WkComplete ==
    /\ wkPc = "map"
    /\ wkRowsProcessed = RowCount(wkData)
    /\ wkPosted' = Append(wkPosted, CompleteMessage(RowsOf(wkData), wkColumns, wkFileIndex))
    /\ wkPc' = "done"
    /\ UNCHANGED <<wkColumns, wkData, wkFileIndex, wkRowsProcessed, wkLastProgressUpdate>>

WkNext ==
    \/ WkError /\ UNCHANGED <<dashVars, epVars, cfVars, psVars, dcVars, fnVars>>
    \/ WkParsed /\ UNCHANGED <<dashVars, epVars, cfVars, psVars, dcVars, fnVars>>
    \/ WkMapRow /\ UNCHANGED <<dashVars, epVars, cfVars, psVars, dcVars, fnVars>>
    \/ WkComplete /\ UNCHANGED <<dashVars, epVars, cfVars, psVars, dcVars, fnVars>>

WkSpec == WkInit /\ [][WkNext]_vars

WkBulkSpec == WkBulkInit /\ [][WkNext]_vars

\* files of every size of the model, the empty one included
WkAnySpec == WkStart(WkInputs \cup WkBulkInputs) /\ [][WkNext]_vars

(***************************************************************************)
(* Calls of the pure helpers: normalizeMessage on two messages that differ *)
(* in one varying part (part_003:1829-1837).                               *)
(***************************************************************************)
\* the texts of a varying part, by kind
VaryingTexts(kind) ==
    CASE kind = "digits" -> { <<"1">>, <<"2", "2">>, <<"4", "5", "6">>, <<"2", "0", "2", "4">> }
      [] kind = "hex" -> { <<"0", "x", "1", "f">>, <<"0", "x", "A", "B", "C">> }
      [] kind = "guid" ->
           { <<"5", "5", "0", "e", "8", "4", "0", "0", "-", "e", "2", "9", "b", "-", "4", "1", "d", "4", "-", "a", "7", "1", "6", "-", "4", "4", "6", "6", "5", "5", "4", "4", "0", "0", "0", "0">>,
             <<"1", "2", "3", "E", "4", "5", "6", "7", "-", "E", "8", "9", "B", "-", "1", "2", "D", "3", "-", "A", "4", "5", "6", "-", "4", "2", "6", "6", "1", "4", "1", "7", "4", "0", "0", "0">> }
      [] kind = "time" -> { <<"2", "0", "2", "4", "-", "0", "1", "-", "1", "5", "T", "1", "0", ":", "3", "0", ":", "0", "0", "Z">>, <<"2", "0", "2", "3", "-", "1", "2", "-", "0", "1", " ", "0", "8", ":", "0", "0", ":", "0", "0">> }

\* n times the letter a
Filler(n) == [i \in 1..n |-> "a"] \o <<>>

\* the fixed text around the varying part: before and after it
Context(before, kind, after) == [before |-> before, kind |-> kind, after |-> after]

Contexts ==
    { Context(<<"e", "r", "r", " ">>, "digits", <<>>),
      Context(<<"u", "s", "e", "r">>, "digits", <<" ", "f", "a", "i", "l", "e", "d">>),
      Context(Filler(198) \o <<" ">>, "digits", <<" ", "e", "n", "d">>),
      Context(Filler(MaxMessageLength + 3) \o <<" ">>, "digits", <<>>),
      Context(<<"a", "t", " ">>, "hex", <<" ", "b", "a", "d">>),
      Context(<<"i", "d", " ">>, "guid", <<>>),
      Context(<<"o", "n", " ">>, "time", <<" ", "x">>) }

\* pairs of messages that differ in the varying part only
MessagePairs ==
    UNION { { << c.before \o v1 \o c.after, c.before \o v2 \o c.after >> :
                 v1 \in VaryingTexts(c.kind), v2 \in VaryingTexts(c.kind) } :
            c \in Contexts }

FnInputs ==
    { [name |-> "normalizeMessage", args |-> pair] : pair \in MessagePairs }

FnInit ==
    /\ DashInit
    /\ EpIdle
    /\ CfIdle
    /\ PsIdle
    /\ DcIdle
    /\ WkIdle
    /\ \E call \in FnInputs : fnName = call.name /\ fnArgs = call.args
    /\ fnPc = "call"
    /\ fnResult = <<>>

\* normalizeMessage returns for each of the two messages
FnNormalize ==
    /\ fnPc = "call"
    /\ fnName = "normalizeMessage"
    /\ fnResult' = <<normalizeMessage(fnArgs[1]), normalizeMessage(fnArgs[2])>>
    /\ fnPc' = "done"
    /\ UNCHANGED <<fnName, fnArgs>>

FnNext ==
    \/ FnNormalize /\ UNCHANGED <<dashVars, epVars, cfVars, psVars, dcVars, wkVars>>

FnSpec == FnInit /\ [][FnNext]_vars

(***************************************************************************)
(* Properties of the ingestion pipeline.                                   *)
(***************************************************************************)
SentBy(r) == workers[r].sent

HoldsResultOf(i, r) == i \in DOMAIN files /\ files[i].id = r

\* C1: last result wins per slot.  Once two ingestions of one slot have both
\* completed, whichever terminal message was handled first, files[slot] does
\* not hold the result of the earlier-started one: it was discarded in favour
\* of the later-started one.
C1_LastResultWins ==
    \A r1 \in DOMAIN runs, r2 \in DOMAIN runs :
        ( /\ r1 < r2
          /\ runs[r1].slot = runs[r2].slot
          /\ runs[r1].state = "completed"
          /\ runs[r2].state = "completed" )
        => ~HoldsResultOf(runs[r1].slot + 1, r1)

\* C2: for every run the worker posts at most one terminal message, it is
\* the last message the worker posts, and a worker that has ended its run
\* has posted exactly one (complete or error, not both); every progress
\* message precedes it.
C2_OneTerminalMessage ==
    \A r \in DOMAIN workers :
        /\ Cardinality({i \in DOMAIN SentBy(r) : Terminal(SentBy(r)[i])}) <= 1
        /\ \A i \in DOMAIN SentBy(r) :
              /\ Terminal(SentBy(r)[i]) => i = Len(SentBy(r))
              /\ SentBy(r)[i].type = "progress" => i < Len(SentBy(r))
        /\ workers[r].pc = "done"
              <=> (SentBy(r) # <<>> /\ Terminal(SentBy(r)[Len(SentBy(r))]))

\* C2 witness: one worker has ended with progress messages and complete,
\* another with error
C2_Witness ==
    /\ \E r \in DOMAIN workers :
          /\ workers[r].pc = "done"
          /\ Len(SentBy(r)) >= 3
          /\ SentBy(r)[1].type = "progress"
          /\ SentBy(r)[Len(SentBy(r))].type = "complete"
    /\ \E r \in DOMAIN workers :
          /\ workers[r].pc = "done"
          /\ SentBy(r)[Len(SentBy(r))].type = "error"

\* What the catch block stores for a failure event (LogDashboard.tsx:135)
FailureReason(m) == IF m.type = "error" THEN m.message ELSE "Failed to parse CSV"

FailureEvent(m) == m.type \in {"error", "errorevent"}

\* C3: when the caller handles a run's error message or its worker's error
\* event, the files list stays exactly as it was, the error state takes the
\* failure reason and the run ends failed, not completed; no file of a failed
\* run is ever in the files list, and a worker whose run fails has posted no
\* complete message.
C3_FailureKeepsFiles ==
    /\ [][ \A r \in DOMAIN workers :
              ( /\ workers[r].chan # <<>>
                /\ FailureEvent(Head(workers[r].chan))
                /\ r \notin DOMAIN workers' )
              => /\ files' = files
                 /\ error' = FailureReason(Head(workers[r].chan))
                 /\ error' # Null
                 /\ runs'[r].state = "failed"
                 /\ \A i \in DOMAIN SentBy(r) : SentBy(r)[i].type # "complete" ]_vars
    /\ [](\A r \in DOMAIN runs :
              runs[r].state = "failed" => \A i \in DOMAIN files : files[i].id # r)

\* C3 witness: a run has failed on the worker's error message while a file
\* is loaded, and the error state holds the worker's reason
C3_Witness ==
    \E r \in DOMAIN runs :
        /\ runs[r].state = "failed"
        /\ Len(files) > 0
        /\ error = "cannot read c.csv"

Ended(r) == RunState(r) \in {"completed", "failed"}

\* C4: every accepted ingestion goes idle -> running -> completed or failed:
\* a running one eventually ends, an ended one keeps its state for good (so
\* it ends in exactly one of the two and never runs again), and the run has
\* ended exactly when the caller has terminated its worker.
C4_RunLifecycle ==
    /\ \A r \in RunIds : (RunState(r) = "running") ~> Ended(r)
    /\ [][ \A r \in RunIds :
              /\ Ended(r) => RunState(r)' = RunState(r)
              /\ RunState(r) = "idle" => RunState(r)' \in {"idle", "running"}
              /\ RunState(r)' = "idle" => RunState(r) = "idle" ]_vars
    /\ [](\A r \in DOMAIN runs : Ended(r) <=> Terminated(r))

\* C4 witness: one run has ended completed and another failed, each with its
\* worker terminated
C4_Witness ==
    \E r1 \in DOMAIN runs, r2 \in DOMAIN runs :
        /\ runs[r1].state = "completed" /\ Terminated(r1)
        /\ runs[r2].state = "failed" /\ Terminated(r2)

(***************************************************************************)
(* Properties of the pattern aggregation.  What the result should be is    *)
(* stated from the input alone: the canonical key of every record, the     *)
(* records that contribute to a key, the place a key is first met.         *)
(***************************************************************************)
KeyOf(logs) == [i \in DOMAIN logs |-> normalizeMessage(logs[i]._message)] \o <<>>

Aggregated(logs) == {i \in DOMAIN logs : logs[i]._severity >= 2}

\* the records of severity >= 2 with the key k, as their places in the input
Members(logs, key, k) == {i \in Aggregated(logs) : key[i] = k}

\* the least place in a non-empty set of places
FirstOf(places) == CHOOSE i \in places : \A j \in places : i <= j

Finished == epPc = "done"

\* C5: no returned pattern lists the _id of a record of severity below 2,
\* and the callback on a record of severity 0 or 1 leaves every bucket as
\* it was
C5_LowSeverityExcluded ==
    /\ [](Finished =>
            \A r \in DOMAIN epResult : \A n \in DOMAIN epResult[r].ids :
                \A i \in DOMAIN epLogs :
                    epLogs[i]._id = epResult[r].ids[n] => epLogs[i]._severity >= 2)
    /\ [][(epIdx' = epIdx + 1 /\ epLogs[epIdx']._severity < 2)
            => epPatterns' = epPatterns]_vars

\* a finished pass over records of severity 0 or 1 mixed with others that
\* made a pattern
C5_Witness ==
    /\ Finished
    /\ epResult # <<>>
    /\ \E i \in DOMAIN epLogs : epLogs[i]._severity = 0
    /\ \E i \in DOMAIN epLogs : epLogs[i]._severity = 1

\* C6: the result is the first 100 buckets in the order of count
\* descending, buckets of equal count in the order their keys are first
\* met: 100 entries when there are more than 100 keys, else one per key, and
\* the counts never increase along the list
C6_TopHundredByCount ==
    Finished =>
        \A key \in {KeyOf(epLogs)} :
        \A cnt \in {[i \in DOMAIN epLogs |->
                        Cardinality(Members(epLogs, key, key[i]))] \o <<>>} :
        \A first \in {[i \in DOMAIN epLogs |->
                        IF i \in Aggregated(epLogs)
                        THEN FirstOf(Members(epLogs, key, key[i])) ELSE 0] \o <<>>} :
        \A at \in {[r \in DOMAIN epResult |->
                        IF Members(epLogs, key, epResult[r].normalized) = {} THEN 0
                        ELSE FirstOf(Members(epLogs, key, epResult[r].normalized))]
                    \o <<>>} :
            LET keys == {key[i] : i \in Aggregated(epLogs)}
                \* the bucket first met at i stands before the one first met at j
                before(i, j) == cnt[i] > cnt[j] \/ (cnt[i] = cnt[j] /\ i < j)
            IN  /\ Len(epResult) = IF Cardinality(keys) > 100 THEN 100
                                   ELSE Cardinality(keys)
                /\ \A r \in DOMAIN epResult :
                      /\ at[r] # 0
                      /\ epResult[r].count = cnt[at[r]]
                /\ \A r \in 1..(Len(epResult) - 1) :
                      /\ before(at[r], at[r + 1])
                      /\ epResult[r].count >= epResult[r + 1].count
                /\ \A i \in Aggregated(epLogs) :
                      \/ \E r \in DOMAIN epResult : at[r] = first[i]
                      \/ /\ Len(epResult) = 100
                         /\ before(at[100], first[i])

\* more than 100 keys, and the key met last, met twice, heads the result
C6_Witness ==
    /\ Finished
    /\ Len(epPatterns) > 100
    /\ Len(epResult) = 100
    /\ epResult[1].normalized = epPatterns[Len(epPatterns)].normalized
    /\ epResult[1].count = 2
    /\ epResult[2].count = 1

\* C7: with at most 100 keys the result has exactly one pattern per key of
\* the records of severity >= 2; its count is the number of those records
\* and its ids are their _id values in input order
C7_OnePatternPerKey ==
    Finished =>
        \A key \in {KeyOf(epLogs)} :
            LET keys == {key[i] : i \in Aggregated(epLogs)}
                places == [i \in DOMAIN epLogs |-> i] \o <<>>
                members(k) == SelectSeq(places,
                                  LAMBDA i : i \in Members(epLogs, key, k))
            IN  Cardinality(keys) <= 100 =>
                    /\ Len(epResult) = Cardinality(keys)
                    /\ \A k \in keys :
                          Cardinality({r \in DOMAIN epResult :
                                          epResult[r].normalized = k}) = 1
                    /\ \A r \in DOMAIN epResult :
                          \A m \in {members(epResult[r].normalized)} :
                              /\ m # <<>>
                              /\ epResult[r].count = Len(m)
                              /\ epResult[r].ids = [n \in DOMAIN m |-> epLogs[m[n]]._id]

\* two messages of one key and a record of another key between them
C7_Witness ==
    /\ Finished
    /\ Len(epLogs) = 3
    /\ Len(epResult) = 2
    /\ epResult[1].count = 2
    /\ epResult[1].ids = <<2, 0>>
    /\ epLogs[1]._message # epLogs[3]._message

\* C8: a record of severity 4 counts as an error: its pattern has
\* errorCount > 0 and severity 3, and count = errorCount + warningCount in
\* every pattern
C8_CriticalIsErrorClass ==
    Finished =>
        \A key \in {KeyOf(epLogs)} : \A r \in DOMAIN epResult :
            /\ epResult[r].count = epResult[r].errorCount + epResult[r].warningCount
            /\ (\E i \in Members(epLogs, key, epResult[r].normalized) :
                    epLogs[i]._severity = 4)
                => epResult[r].errorCount > 0 /\ epResult[r].severity = 3

\* C9: firstSeen and lastSeen are the least and the greatest timestamp of
\* the pattern's records that have one, wherever the records without one
\* stand; both are the creation instant only when no record has one
C9_SeenRange ==
    Finished =>
        \A key \in {KeyOf(epLogs)} : \A r \in DOMAIN epResult :
            LET stamps == { epLogs[i]._timestamp :
                              i \in Members(epLogs, key, epResult[r].normalized) }
                           \ {NoTimestamp}
            IN  IF stamps = {}
                THEN epResult[r].firstSeen = Now /\ epResult[r].lastSeen = Now
                ELSE /\ epResult[r].firstSeen \in stamps
                     /\ epResult[r].lastSeen \in stamps
                     /\ \A t \in stamps :
                           epResult[r].firstSeen <= t /\ t <= epResult[r].lastSeen

(***************************************************************************)
(* Properties of the comparison.                                           *)
(***************************************************************************)
Compared == cfPc = "done"

\* the canonical keys of the records of severity >= 2 of one file
KeysOf(logs) == {KeyOf(logs)[i] : i \in Aggregated(logs)}

\* C10: every key of a record of severity >= 2 of either file is in exactly
\* one of file1Only, file2Only and bothFiles, once: in file1Only iff only
\* the baseline has it, in file2Only iff only the candidate has it, in
\* bothFiles iff both have it; the lists hold no other key
C10_DiffPartition ==
    Compared =>
        \A keys1 \in {KeysOf(cfLogs1)} : \A keys2 \in {KeysOf(cfLogs2)} :
            LET only1 == cfResult.file1Only
                only2 == cfResult.file2Only
                both == cfResult.bothFiles
            IN  /\ {only1[i].normalized : i \in DOMAIN only1} = keys1 \ keys2
                /\ {only2[i].normalized : i \in DOMAIN only2} = keys2 \ keys1
                /\ {both[i].pattern.normalized : i \in DOMAIN both} = keys1 \cap keys2
                /\ Len(only1) = Cardinality(keys1 \ keys2)
                /\ Len(only2) = Cardinality(keys2 \ keys1)
                /\ Len(both) = Cardinality(keys1 \cap keys2)

\* a comparison with a key in each of the three lists, the shared key
\* written differently in the two files
C10_Witness ==
    /\ Compared
    /\ Len(cfResult.file1Only) = 1
    /\ Len(cfResult.file2Only) = 1
    /\ Len(cfResult.bothFiles) = 1
    /\ \E i \in DOMAIN cfLogs1 : cfLogs1[i]._message = MsgErr1
    /\ \E i \in DOMAIN cfLogs2 : cfLogs2[i]._message = MsgErr22

\* the number of records of severity >= 2 of logs that have the key k
KeyCount(logs, key, k) == Cardinality(Members(logs, key, k))

\* the two files have the same keys, each as often in one as in the other
SameKeys(key1, key2) ==
    \A k \in {key1[i] : i \in Aggregated(cfLogs1)}
             \cup {key2[i] : i \in Aggregated(cfLogs2)} :
        KeyCount(cfLogs1, key1, k) = KeyCount(cfLogs2, key2, k)

\* C11: for a file compared with itself, and for two files with the same
\* multiset of keys, file1Only and file2Only are empty, every bothFiles
\* entry has change 0, and the four pattern counts of the summary are 0
C11_ZeroCase ==
    Compared =>
        \A key1 \in {KeyOf(cfLogs1)} : \A key2 \in {KeyOf(cfLogs2)} :
            SameKeys(key1, key2) =>
                /\ cfResult.file1Only = <<>>
                /\ cfResult.file2Only = <<>>
                /\ \A i \in DOMAIN cfResult.bothFiles :
                      cfResult.bothFiles[i].change.num = 0
                /\ cfResult.summary.newPatterns = 0
                /\ cfResult.summary.resolvedPatterns = 0
                /\ cfResult.summary.increasedPatterns = 0
                /\ cfResult.summary.decreasedPatterns = 0

\* a file with two patterns compared with itself
C11_Witness ==
    /\ Compared
    /\ cfLogs1 = cfLogs2
    /\ Len(cfResult.bothFiles) = 2

\* C12: every bothFiles entry has file1Count >= 1 and file2Count >= 1, the
\* numbers of records of severity >= 2 with its key in the baseline and in
\* the candidate, so the division is never by zero, and its change is
\* (file2Count - file1Count) * 100 / file1Count
C12_ChangeDefined ==
    Compared =>
        \A key1 \in {KeyOf(cfLogs1)} : \A key2 \in {KeyOf(cfLogs2)} :
            \A i \in DOMAIN cfResult.bothFiles :
                LET both == cfResult.bothFiles[i]
                    count1 == KeyCount(cfLogs1, key1, both.pattern.normalized)
                    count2 == KeyCount(cfLogs2, key2, both.pattern.normalized)
                IN  /\ both.file1Count = count1 /\ count1 >= 1
                    /\ both.file2Count = count2 /\ count2 >= 1
                    /\ both.change.den > 0
                    /\ both.change.num * count1
                          = (count2 - count1) * 100 * both.change.den

\* a pattern met 10 times in the baseline and 11 times in the candidate
C12_Witness ==
    /\ Compared
    /\ \E i \in DOMAIN cfResult.bothFiles :
          /\ cfResult.bothFiles[i].file1Count = 10
          /\ cfResult.bothFiles[i].file2Count = 11
          /\ cfResult.bothFiles[i].change.num = 10 * cfResult.bothFiles[i].change.den

\* C13: increasedPatterns is the number of bothFiles entries whose count
\* grew by more than 10 percent, decreasedPatterns the number whose count
\* fell by more than 10 percent (exactly 10 percent counts in neither);
\* newPatterns and resolvedPatterns are the sizes of file2Only and file1Only
C13_SummaryThresholds ==
    Compared =>
        LET both == cfResult.bothFiles
        IN  /\ cfResult.summary.increasedPatterns =
                  Cardinality({i \in DOMAIN both :
                      10 * (both[i].file2Count - both[i].file1Count) > both[i].file1Count})
            /\ cfResult.summary.decreasedPatterns =
                  Cardinality({i \in DOMAIN both :
                      10 * (both[i].file1Count - both[i].file2Count) > both[i].file1Count})
            /\ cfResult.summary.newPatterns = Len(cfResult.file2Only)
            /\ cfResult.summary.resolvedPatterns = Len(cfResult.file1Only)

\* one pattern fell from 10 to 9, exactly 10 percent, and is not counted;
\* another one doubled and is
C13_Witness ==
    /\ Compared
    /\ \E i \in DOMAIN cfResult.bothFiles :
          /\ cfResult.bothFiles[i].file1Count = 10
          /\ cfResult.bothFiles[i].file2Count = 9
    /\ cfResult.summary.decreasedPatterns = 0
    /\ cfResult.summary.increasedPatterns = 1

\* the keys of the buckets extractErrorPatterns makes from logs, each with
\* its count
BucketCounts(logs) ==
    LET patterns == AllPatterns(logs, Len(logs))
    IN  {<<patterns[i].normalized, patterns[i].count>> : i \in DOMAIN patterns}

Returned == psPc = "done"

\* C15: for undefined, null, every number and every string parseSeverity
\* returns an integer in 0..4 (the call never throws: String, toLowerCase,
\* trim, parseInt and includes are defined on every such value)
C15_Total == Returned => psResult \in 0..4

\* the cell "99" is a number out of the range and gives the default 1
C15_Witness ==
    /\ Returned
    /\ psValue = JsString(<<"9", "9">>)
    /\ psResult = 1

\* the level the keywords give a text, the classes in the order
\* error / critical / fatal, warn, info, verbose / debug / trace
KeywordLevel(str) ==
    CASE Includes(str, Keywords.error) \/ Includes(str, Keywords.critical) \/ Includes(str, Keywords.fatal) -> 3
      [] OTHER ->
           CASE Includes(str, Keywords.warn) -> 2
             [] OTHER ->
                  CASE Includes(str, Keywords.info) -> 1
                    [] OTHER ->
                         CASE \/ Includes(str, Keywords.verbose)
                              \/ Includes(str, Keywords.debug)
                              \/ Includes(str, Keywords.trace) -> 0
                           [] OTHER -> 1

C17_TrimmedBeforeChecks ==
    (Returned /\ psValue.type = "string") =>
        psResult = parseSeverity(JsString(Trim(psValue.chars)))

(***************************************************************************)
(* Properties of detectColumnMapping.                                      *)
(***************************************************************************)
Mapped == dcPc = "done"

\* the synonyms of a role, in lower case
Synonyms(patterns) == {ToLowerCase(patterns[p]) : p \in DOMAIN patterns}

\* the columns that are a synonym, and those that contain one
ExactColumns(columns, synonyms) ==
    {i \in DOMAIN columns : ToLowerCase(columns[i]) \in synonyms}

PartialColumns(columns, synonyms) ==
    {i \in DOMAIN columns : \E syn \in synonyms : Includes(ToLowerCase(columns[i]), syn)}

\* what the claim says of the column found for one role
RoleResolved(columns, patterns, found) ==
    \A synonyms \in {Synonyms(patterns)} :
        LET exact == ExactColumns(columns, synonyms)
            partial == PartialColumns(columns, synonyms)
        IN  /\ exact # {} => \E i \in exact : found = columns[i]
            /\ (exact = {} /\ partial # {}) => \E i \in partial : found = columns[i]
            /\ (exact = {} /\ partial = {}) => found = <<>>
            /\ found = <<>> \/ \E i \in DOMAIN columns : found = columns[i]

\* C18: each role gets a column that is one of its synonyms, letter case
\* aside, whenever the header has one, even when another column contains a
\* synonym of higher priority; a containing column only when no column is a
\* synonym; '' when no column matches; never a name that is not in the header
C18_ExactOutranksPartial ==
    Mapped =>
        /\ RoleResolved(dcColumns, TIMESTAMP_PATTERNS, dcMapping.timestamp)
        /\ RoleResolved(dcColumns, SEVERITY_PATTERNS, dcMapping.severity)
        /\ RoleResolved(dcColumns, MESSAGE_PATTERNS, dcMapping.message)

\* 'datetime' is found for the timestamp although 'my_timestamp_field'
\* comes first and contains 'timestamp', the first synonym; the other
\* two roles find no column
C18_Witness ==
    /\ Mapped
    /\ dcColumns = << <<"m", "y", "_", "t", "i", "m", "e", "s", "t", "a", "m", "p", "_", "f", "i", "e", "l", "d">>,
                      <<"d", "a", "t", "e", "t", "i", "m", "e">> >>
    /\ dcMapping.timestamp = <<"d", "a", "t", "e", "t", "i", "m", "e">>
    /\ dcMapping.severity = <<>>
    /\ dcMapping.message = <<>>

(***************************************************************************)
(* Properties of the worker.                                               *)
(***************************************************************************)
\* the worker has posted 'complete'
Completed ==
    /\ wkPc = "done"
    /\ wkPosted # <<>>
    /\ wkPosted[Len(wkPosted)].type = "complete"

DeliveredLogs == wkPosted[Len(wkPosted)].data.logs

\* C19: the records of a 'complete' message have the _id values 0..n-1 for
\* the n parsed rows, each once; a record's _id is the 0-based place of its
\* row in the parsed input and its _raw is that row
C19_IdsAreRowPlaces ==
    Completed =>
        \A logs \in {DeliveredLogs} : \A rows \in {RowsOf(wkData)} :
            /\ Len(logs) = Len(rows)
            /\ {logs[i]._id : i \in DOMAIN logs} = 0..(Len(rows) - 1)
            /\ \A i \in DOMAIN logs : logs[i]._raw = rows[logs[i]._id + 1]

\* three rows delivered newest first: the last row parsed comes first and
\* keeps the _id 2
C19_Witness ==
    /\ Completed
    /\ Len(wkData) = 3
    /\ wkData[1].row # wkData[3].row
    /\ DeliveredLogs[1]._id = 2
    /\ DeliveredLogs[3]._id = 0

\* C20: at each row a progress message is posted exactly when the integer
\* percentage of rows processed is 10 or more points above the last posted
\* percentage (0 before any) or the number of rows processed is a multiple
\* of 1000; so after the row fewer than 10 points separate the percentage
\* of rows processed from the last posted one
C20_ProgressRule ==
    [][ wkRowsProcessed' = wkRowsProcessed + 1 =>
          LET percent == (wkRowsProcessed' * 100) \div RowCount(wkData)
          IN  /\ (Len(wkPosted') = Len(wkPosted) + 1)
                    <=> \/ percent - wkLastProgressUpdate >= 10
                        \/ wkRowsProcessed' % 1000 = 0
              /\ percent - wkLastProgressUpdate' < 10 ]_vars

\* the percents of the progress messages posted so far, in order
PostedPercents ==
    LET progress == SelectSeq(wkPosted, LAMBDA m : m.type = "progress")
    IN  [i \in DOMAIN progress |-> progress[i].percent]

\* C21: every progress message has an integer percent in 0..100, a file of
\* no rows posts no progress message, and the percents posted in one run
\* never decrease
C21_PercentRange ==
    \A percents \in {PostedPercents} :
        /\ \A i \in DOMAIN percents : percents[i] \in 0..100
        /\ \A i \in DOMAIN percents : \A j \in DOMAIN percents :
              i < j => percents[i] <= percents[j]
        /\ RowCount(wkData) = 0 => percents = <<>>

\* the 2050 rows are done: 48 was posted at row 1000 and 58 after it, and
\* the last percent posted is 97, at row 2000
C21_Witness ==
    /\ Completed
    /\ RowCount(wkData) = 2050
    /\ \E i \in DOMAIN PostedPercents :
          PostedPercents[i] = 48 /\ PostedPercents[i + 1] = 58
    /\ PostedPercents[Len(PostedPercents)] = 97

\* the advisory of a completed ingestion (LogDashboard.tsx:123-125)
Advisories == {"Could not auto-detect timestamp column."}

\* C22: when a run completes and its mapping has no timestamp column or no
\* message column, the run is completed, its records are in the files list
\* and the caller holds an advisory, for the message column as for the
\* timestamp column
C22_MissingColumnAdvisory ==
    [][ \A r \in DOMAIN runs :
          ( /\ runs[r].state = "running"
            /\ runs'[r].state = "completed"
            /\ \E m \in {Head(workers[r].chan).data.detectedMapping} :
                  m.timestamp = "" \/ m.message = "" )
          => /\ \E i \in DOMAIN files' : files'[i].id = r
             /\ error' \in Advisories ]_vars

(***************************************************************************)
(* Properties of the pure helpers.                                         *)
(***************************************************************************)
\* C23: two messages that differ only in a digit run, a UUID, an ISO
\* date-time or a 0x literal have the same canonical key, also where the
\* digit run is attached to letters and where it lies beyond the 200th
\* character
C23_SameKey ==
    (fnPc = "done" /\ fnName = "normalizeMessage") => fnResult[1] = fnResult[2]

(***************************************************************************)
(* Properties of extractServerRole, on the rows the worker delivers.       *)
(***************************************************************************)
\* the file has a customDimensions column, and the worker has delivered it
DimsDelivered == Completed /\ wkColumns = HeaderDims

\* the customDimensions cell of the file's row, and the role of its record
DimsCell == wkData[1].row[2]

DeliveredRole == DeliveredLogs[1]._serverRole

\* the role the suffix of a name gives
SuffixRole(name) ==
    LET tail == SubSeq(name, Len(name) - 2, Len(name))
    IN  CASE tail = <<"-", "C", "M">> -> "CM"
          [] tail = <<"-", "C", "D">> -> "CD"
          [] tail = <<"-", "X", "P">> -> "XP"
          [] OTHER -> "Other"

\* C24: for a non-empty InstanceName string the role is CM, CD or XP only
\* when the name ends with -CM, -CD or -XP, and Other for every other name,
\* one with -CM in the middle included
C24_RoleBySuffix ==
    (DimsDelivered /\ DimsCell # <<>>) =>
        \A dims \in {JsonParse(DimsCell)} :
            ( /\ dims.kind = "object"
              /\ dims.InstanceName.kind = "string"
              /\ dims.InstanceName.chars # <<>> )
            => DeliveredRole = SuffixRole(dims.InstanceName.chars)

\* C26: the role is CM, CD, XP, Other or undefined; a cell that is empty,
\* not JSON, JSON that is no object, or an object whose InstanceName and
\* instanceName are no strings gives undefined, as does a file without the
\* column; the row is built and delivered all the same
C26_RoleIsBestEffort ==
    Completed =>
        /\ Len(DeliveredLogs) = RowCount(wkData)
        /\ \A i \in DOMAIN DeliveredLogs :
              DeliveredLogs[i]._serverRole \in {"CM", "CD", "XP", "Other", "undefined"}
        /\ wkColumns # HeaderDims =>
              \A i \in DOMAIN DeliveredLogs : DeliveredLogs[i]._serverRole = "undefined"
        /\ (wkColumns = HeaderDims /\ DimsCell = <<>>) => DeliveredRole = "undefined"
        /\ (wkColumns = HeaderDims /\ DimsCell # <<>>) =>
              \A dims \in {JsonParse(DimsCell)} :
                  ( \/ dims.kind # "object"
                    \/ /\ dims.InstanceName.kind # "string"
                       /\ dims.instanceName.kind # "string" )
                  => DeliveredRole = "undefined"

(***************************************************************************)
(* Further properties of extractErrorPatterns.                             *)
(***************************************************************************)
\* C25: after each record every bucket has severity 3 if its errorCount is
\* above 0 and severity 2 otherwise, and so has every returned pattern,
\* whatever the severity of the record that created the bucket
C25_DominantSeverity ==
    /\ \A i \in DOMAIN epPatterns :
          epPatterns[i].severity = IF epPatterns[i].errorCount > 0 THEN 3 ELSE 2
    /\ \A i \in DOMAIN epResult :
          epResult[i].severity = IF epResult[i].errorCount > 0 THEN 3 ELSE 2

\* a bucket created by a warning and joined by an error has severity 3
C25_Witness ==
    /\ Finished
    /\ Len(epLogs) = 2
    /\ epLogs[1]._severity = 2
    /\ epLogs[2]._severity = 3
    /\ Len(epResult) = 1
    /\ epResult[1].severity = 3
    /\ epResult[1].warningCount = 1

(***************************************************************************)
(* Further properties of the dashboard.                                    *)
(***************************************************************************)
\* C27: loading is true in every state in which at least one ingestion is
\* in flight, two overlapping ones included; it is false only when none is
\* in flight
C27_LoadingWhileInFlight ==
    (\E r \in DOMAIN runs : InFlight(r)) => loading = TRUE

\* the slot other than s
OtherSlot(s) == 1 - s

\* C28: when an ingestion started for slot s completes, its result is at
\* files[s] and the file of the other slot is as it was, whatever happened
\* to the list while the run was in flight
C28_StoredAtOwnSlot ==
    [][ \A r \in DOMAIN runs :
            (InFlight(r) /\ runs'[r].state = "completed") =>
                \A s \in {runs[r].slot} :
                    /\ s + 1 \in DOMAIN files'
                    /\ files'[s + 1].id = r
                    /\ (OtherSlot(s) + 1 \in DOMAIN files) =>
                          /\ OtherSlot(s) + 1 \in DOMAIN files'
                          /\ files'[OtherSlot(s) + 1] = files[OtherSlot(s) + 1]
                    /\ (OtherSlot(s) + 1 \notin DOMAIN files) =>
                          OtherSlot(s) + 1 \notin DOMAIN files' ]_vars

(***************************************************************************)
(* Further properties of the worker's records.                             *)
(***************************************************************************)
\* the records the map callback built, in row order
BuiltRecords ==
    LET rows == RowsOf(wkData)
        mapping == detectColumnMapping(wkColumns)
    IN  [i \in DOMAIN rows |->
            LogEntry(rows[i], i - 1, wkColumns, mapping, wkFileIndex)] \o <<>>

\* C29: the logs of a 'complete' message are ordered newest first with the
\* records without a timestamp after all those that have one, and they are
\* a permutation of the built records
C29_NewestFirstNullsLast ==
    Completed =>
        \A logs \in {DeliveredLogs} : \A built \in {BuiltRecords} :
            /\ \A i \in DOMAIN logs : \A j \in DOMAIN logs :
                  i < j =>
                      /\ logs[i]._timestamp = NoTimestamp
                            => logs[j]._timestamp = NoTimestamp
                      /\ ( /\ logs[i]._timestamp # NoTimestamp
                           /\ logs[j]._timestamp # NoTimestamp )
                            => logs[i]._timestamp >= logs[j]._timestamp
            /\ Len(logs) = Len(built)
            /\ \A k \in DOMAIN built :
                  Cardinality({i \in DOMAIN logs : logs[i] = built[k]}) = 1

\* rows dated 2023, undated, 2024: delivered as 2024, 2023, undated, so no
\* record is at the place of its _id
C29_Witness ==
    /\ Completed
    /\ Len(DeliveredLogs) = 3
    /\ BuiltRecords[1]._timestamp # NoTimestamp
    /\ BuiltRecords[2]._timestamp = NoTimestamp
    /\ BuiltRecords[3]._timestamp > BuiltRecords[1]._timestamp
    /\ DeliveredLogs[1]._id = 2
    /\ DeliveredLogs[2]._id = 0
    /\ DeliveredLogs[3]._id = 1
    /\ DeliveredLogs[3]._timestamp = NoTimestamp

\* the delivered records with the severity of each raised to Error
RaisedToError(logs) == [i \in DOMAIN logs |-> [logs[i] EXCEPT !._severity = 3]] \o <<>>

\* C30: when no severity column was detected every delivered record has
\* severity 1, extractErrorPatterns over the records returns no pattern,
\* and compareFiles with the records on either side reports no key and
\* zero errors and warnings for that side
C30_NoSeverityColumn ==
    (Completed /\ detectColumnMapping(wkColumns).severity = <<>>) =>
        \A logs \in {DeliveredLogs} :
            /\ \A i \in DOMAIN logs : logs[i]._severity = 1
            /\ Slice0(SortByCount(AllPatterns(logs, Len(logs))), MaxPatterns) = <<>>
            /\ \A result \in {compareFiles(logs, RaisedToError(logs))} :
                  /\ result.file1Only = <<>>
                  /\ result.bothFiles = <<>>
                  /\ Len(result.file2Only) =
                        Cardinality({normalizeMessage(logs[i]._message) : i \in DOMAIN logs})
                  /\ result.summary.file1Errors = 0
                  /\ result.summary.file1Warnings = 0
            /\ \A result \in {compareFiles(RaisedToError(logs), logs)} :
                  /\ result.file2Only = <<>>
                  /\ result.bothFiles = <<>>
                  /\ result.summary.file2Errors = 0
                  /\ result.summary.file2Warnings = 0

\* three rows of a file with a timestamp and a message column only
C30_Witness ==
    /\ Completed
    /\ wkColumns = HeaderNoSeverity
    /\ Len(DeliveredLogs) = 3
    /\ DeliveredLogs[1]._message # DeliveredLogs[3]._message
    /\ \A i \in DOMAIN DeliveredLogs : DeliveredLogs[i]._severity = 1
    /\ Len(compareFiles(DeliveredLogs, RaisedToError(DeliveredLogs)).file2Only) = 2

====
